---------------------------- MODULE Spec2Model ----------------------------
(***************************************************************************)
(* A model of the ad-performance dashboard: the persistence gateway        *)
(* (src/src/utils/supabaseService.ts), the aggregation engine              *)
(* (src/src/utils/csvParser.ts), the upload pipeline (CSVUpload.handleFile,*)
(* src/unnamed/part_002), the CSV parser, the dashboard (Dashboard.tsx):   *)
(* its sort, its filter, its sort-header clicks, its day and ad levels and *)
(* its navigation, and the Home page's loads (src/src/app/page.tsx).       *)
(*                                                                         *)
(* The record store is table v_ad_performance_data with its unique index   *)
(* on (ad_id, day, placement, platform).  Numbers are exact integers and   *)
(* rationals: floating-point rounding is not modelled; NaN is a value of   *)
(* its own that sums and products pass on.  A record carries               *)
(* the natural-key fields, campaign_id, ad_set_id and one metric           *)
(* (amount_spent);                                                         *)
(* the other columns travel through the same code paths unchanged.         *)
(***************************************************************************)
EXTENDS Integers, Sequences, FiniteSets, TLC

VARIABLES
    table,            \* v_ad_performance_data: the stored rows, in heap order
    savePc,           \* saveAdPerformanceData: "idle" | "await" (upsert in flight)
    saveArg,          \* saveAdPerformanceData: its argument `data`
    uploadResult,     \* the UploadResult last returned (<<>>: none yet)
    prevSave,         \* <<>> or <<[batch, table]>>: the last successful first call
    repeated,         \* the call in progress or just returned repeats prevSave
    upPc,             \* handleFile: "idle" | "count" | "keys" | "save" | "done"
    data,             \* handleFile: the parsed records
    incrementalData,  \* handleFile: what getIncrementalData returned
    existingData,     \* getIncrementalData: the rows its key query returned
    countAnswer,      \* how the store answered the count query ("none": not asked)
    keysAnswer,       \* how the store answered the key query ("none": not asked)
    giThrew,          \* getIncrementalData threw instead of returning
    tableBefore,      \* the table when handleFile started
    loaded,           \* handleFile: <<>> or <<the list onDataLoad was called with>>
    saveCalls,        \* handleFile: its calls of saveAdPerformanceData so far
    rdPc,             \* getAdPerformanceData: "idle" | "page" | "returned" | "threw"
    rdOptions,        \* getAdPerformanceData: its argument `options`
    rdFrom,           \* getAdPerformanceData: `from`
    allData,          \* getAdPerformanceData: `allData`
    rdResult,         \* getAdPerformanceData: the list returned
    rdAsked,          \* getAdPerformanceData: the offsets of its page requests so far
    atStart,          \* getAdPerformanceData: the stored rows that matched when it was called
    serveOrder,       \* the store: <<>>, or the one order it serves every page from
    lkOp,             \* "none" | "dates" (getAvailableDates) | "summary" (getDatabaseSummary)
    lkPc,             \* that call: "idle" | "await" | "returned"
    lkParts,          \* getDatabaseSummary: what its queries answered so far
    lkFailed,         \* a store call of that call returned an error or threw
    lkResult,         \* <<>> or <<[threw, value]>>: what that call gave back
    aggInput,         \* Dashboard: filteredBaseData, the rows being aggregated
    given,            \* Dashboard: filteredBaseData as it was first given
    campaigns,        \* Dashboard: <<>> or <<aggregateByCampaign(filteredBaseData)>>
    adSets,           \* Dashboard: <<>> or <<aggregateByAdSet(filteredBaseData)>>
    sortInput,        \* sortData: its argument `data`
    sortConfig,       \* sortData: its argument `config`
    sorted,           \* sortData: <<>> or <<the list returned>>
    selectedCampaign, \* Dashboard: selectedCampaign ("null": none)
    selectedAdSet,    \* Dashboard: selectedAdSet ("null": none)
    dailyData,        \* Dashboard: <<>> or <<dailyData>>
    filteredAds,      \* Dashboard: <<>> or <<filteredAds>>
    aggregatedAds,    \* Dashboard: <<>> or <<aggregatedAds>>
    filterInput,      \* filterData: its argument `data`
    filterConfig,     \* filterData: its argument `filterConfig`
    filtered,         \* filterData: <<>> or <<the list returned>>
    clicks,           \* handleSort: how many times it was called
    clicked,          \* handleSort: the column of its last call ("none": no call)
    streak,           \* handleSort: calls in a row naming the column they made current
    csvRows,          \* parseAdPerformanceCSV: results.data, the rows Papa.parse gave
    parsed,           \* parseAdPerformanceCSV: <<>> or <<the list it resolved with>>
    activeTab,        \* Dashboard: activeTab
    adData,           \* Home: adData (<<>>: null, else <<the rows>>)
    isLoadingFromDB,  \* Home: isLoadingFromDB
    error,            \* Home: error ("null": none)
    loads,            \* Home: the calls of handleDatabaseLoad, in the order they started,
                      \* each with whether it started while another was awaited
    overridden        \* Home: adData was set by an upload or a reset since the last load started

storeVars == <<table>>
saveVars  == <<savePc, saveArg, uploadResult>>
twiceVars == <<prevSave, repeated>>
upVars    == <<upPc, data, incrementalData, existingData, countAnswer,
               keysAnswer, giThrew, tableBefore, loaded, saveCalls>>
readVars  == <<rdPc, rdOptions, rdFrom, allData, rdResult, rdAsked, atStart,
               serveOrder>>
lookupVars == <<lkOp, lkPc, lkParts, lkFailed, lkResult>>
aggVars   == <<aggInput, given, campaigns, adSets>>
sortVars  == <<sortInput, sortConfig, sorted>>
levelVars == <<selectedCampaign, selectedAdSet, dailyData, filteredAds,
               aggregatedAds>>
filterVars == <<filterInput, filterConfig, filtered>>
clickVars == <<clicks, clicked, streak>>
dashVars  == <<levelVars, filterVars, clickVars>>
\* Everything that is not the store or one of its callers.
viewVars  == <<aggVars, sortVars, dashVars>>
\* The store and its callers.
gatewayVars == <<storeVars, saveVars, twiceVars, upVars, readVars, lookupVars>>
parseVars == <<csvRows, parsed>>
\* The CSV parser, the Home page and the dashboard's navigation.
navVars   == <<activeTab>>
homeVars  == <<adData, isLoadingFromDB, error, loads, overridden>>
extraVars == <<parseVars, navVars, homeVars>>
vars      == <<gatewayVars, viewVars, extraVars>>

---------------------------------------------------------------------------
(* Bounds *)

\* Longest batch handed to saveAdPerformanceData / longest parsed CSV.
MaxBatch == 3

\* Longest parsed CSV handed to the upload pipeline.
MaxCsv == 2

---------------------------------------------------------------------------
(* Small helpers *)

Range(s) == { s[i] : i \in 1..Len(s) }

SeqsUpTo(S, n) == UNION { [1..k -> S] : k \in 0..n }

Min(a, b) == IF a <= b THEN a ELSE b

---------------------------------------------------------------------------
(* Records *)

\* Values of the `day` column, in calendar order (YYYY-MM-DD compares as text).
Days == <<"2025-08-15", "2025-08-16">>

DayRank(d) == CHOOSE i \in 1..Len(Days) : Days[i] = d

\* AdPerformanceData (camelCase, the application's shape).
AdRec(ad, d, pl, pf, c, spend) ==
    [adId |-> ad, day |-> d, placement |-> pl, platform |-> pf,
     campaignId |-> c, adSetId |-> "s1", amountSpent |-> spend]

\* The natural keys the uploads draw from.  The second and third differ in
\* placement and platform and both contain the '-' character.
UploadKeys ==
    { <<"a1", Days[1], "feed", "fb">>,
      <<"a1", Days[1], "x-y",  "z">>,
      <<"a1", Days[1], "x",    "y-z">> }

UploadRecs ==
    { AdRec(k[1], k[2], k[3], k[4], "c1", v) : k \in UploadKeys, v \in {1, 2} }

\* Uploads whose key fields hold no '-' beyond the dashes of the day.
PlainKeys ==
    { <<"a1", Days[1], "feed",  "fb">>,
      <<"a1", Days[1], "story", "fb">>,
      <<"a1", Days[1], "reels", "fb">> }

PlainRecs ==
    { AdRec(k[1], k[2], k[3], k[4], "c1", v) : k \in PlainKeys, v \in {1, 2} }

\* convertToSupabaseFormat: camelCase record -> snake_case insert row.
convertToSupabaseFormat(d) ==
    [ad_id |-> d.adId, day |-> d.day, placement |-> d.placement,
     platform |-> d.platform, campaign_id |-> d.campaignId,
     ad_set_id |-> d.adSetId, amount_spent |-> d.amountSpent]

\* convertFromSupabaseFormat: String(x || '') and Number(x) || 0 per column.
convertFromSupabaseFormat(row) ==
    [adId |-> row.ad_id, day |-> row.day, placement |-> row.placement,
     platform |-> row.platform, campaignId |-> row.campaign_id,
     adSetId |-> row.ad_set_id, amountSpent |-> row.amount_spent]

\* The natural key of a stored row and of an application record.
RowKey(row) == <<row.ad_id, row.day, row.placement, row.platform>>
RecKey(d)   == <<d.adId, d.day, d.placement, d.platform>>

---------------------------------------------------------------------------
(* The store: upsert on the unique index *)

\* idx_v_ad_performance_unique: no two stored rows share a natural key.
UniqueKeys(t) ==
    \A i, j \in 1..Len(t) : RowKey(t[i]) = RowKey(t[j]) => i = j

\* A batch naming one key twice cannot be upserted: INSERT .. ON CONFLICT DO
\* UPDATE refuses to touch a row a second time and the statement fails.
BatchConflicts(rows) ==
    \E i, j \in 1..Len(rows) : i # j /\ RowKey(rows[i]) = RowKey(rows[j])

\* (mutant) a plain insert: the conflict target is ignored.
UpsertRowAlwaysInserts(t, row) == Append(t, row)

\* One row written with onConflict 'ad_id,day,placement,platform',
\* ignoreDuplicates false: the stored row with that key is replaced in place,
\* a new key is appended.
UpsertRow(t, row) ==
    IF \E i \in 1..Len(t) : RowKey(t[i]) = RowKey(row)
    THEN [i \in 1..Len(t) |-> IF RowKey(t[i]) = RowKey(row) THEN row ELSE t[i]]
    ELSE Append(t, row)

RECURSIVE UpsertRows(_, _)
UpsertRows(t, rows) ==
    IF rows = <<>> THEN t
    ELSE UpsertRows(UpsertRow(t, Head(rows)), Tail(rows))

\* What the store can answer to a call: it succeeds, it returns an error
\* object, or the call throws (the request never completes).
StoreOutcomes == {"ok", "error", "throw"}

\* The outcome of the upsert request for `rows` under store answer `o`.
UpsertOutcome(rows, o) ==
    IF o = "ok" /\ BatchConflicts(rows) THEN "error" ELSE o

---------------------------------------------------------------------------
(* saveAdPerformanceData *)

NoResult == <<>>

Result(success, inserted, errors, message) ==
    <<[success |-> success, inserted |-> inserted, updated |-> 0,
       errors |-> errors, message |-> message]>>

\* error.message of a store call that failed.
StoreMessage == "connection refused"

\* The UploadResult returned for store outcome `o` of a batch of n rows.
SaveResult(n, o) ==
    CASE o = "ok"    -> Result(TRUE, n, <<>>, "Successfully processed")
      [] o = "error" -> Result(FALSE, 0, <<"Database error: " \o StoreMessage>>,
                               "Failed to save data to database")
      [] o = "throw" -> Result(FALSE, 0, <<"Unexpected error: " \o StoreMessage>>,
                               "Failed to save data")

\* (mutant) a rejected batch still writes its first row.
TableAfterSaveWritesFirst(t, batch, o) ==
    IF o = "ok"
    THEN UpsertRows(t, [i \in 1..Len(batch) |-> convertToSupabaseFormat(batch[i])])
    ELSE UpsertRow(t, convertToSupabaseFormat(batch[1]))

\* The table after the upsert request answered with outcome `o`.
TableAfterSave(t, batch, o) ==
    IF o = "ok"
    THEN UpsertRows(t, [i \in 1..Len(batch) |-> convertToSupabaseFormat(batch[i])])
    ELSE t

Batches == SeqsUpTo(UploadRecs, MaxBatch)

\* saveAdPerformanceData(data) up to its await: an empty batch returns at
\* once, any other is converted and sent.
SaveBegin(batch) ==
    /\ savePc = "idle"
    /\ IF batch = <<>>
       THEN /\ savePc' = "idle"
            /\ saveArg' = <<>>
            /\ uploadResult' = Result(TRUE, 0, <<>>, "No data to save")
       ELSE /\ savePc' = "await"
            /\ saveArg' = batch
            /\ uploadResult' = NoResult
    /\ UNCHANGED table

\* The upsert request completes and saveAdPerformanceData returns.
SaveReturn(o) ==
    /\ savePc = "await"
    /\ LET out == UpsertOutcome(
                    [i \in 1..Len(saveArg) |-> convertToSupabaseFormat(saveArg[i])], o)
       IN  /\ table' = TableAfterSave(table, saveArg, out)
           /\ uploadResult' = SaveResult(Len(saveArg), out)
    /\ savePc' = "idle"
    /\ saveArg' = <<>>

InitStore == table = <<>>

InitSaveIdle ==
    /\ savePc = "idle"
    /\ saveArg = <<>>
    /\ uploadResult = NoResult

---------------------------------------------------------------------------
(* saveAdPerformanceData called directly, once or twice with one batch *)

\* A first call, with any batch.
SaveCall(batch) ==
    /\ prevSave = <<>>
    /\ SaveBegin(batch)
    /\ repeated' = FALSE
    /\ UNCHANGED <<prevSave, upVars>>
    /\ UNCHANGED <<readVars, lookupVars, viewVars, extraVars>>

\* The same batch handed in again, right after a call that succeeded.
SaveCallAgain ==
    /\ prevSave # <<>>
    /\ ~repeated
    /\ SaveBegin(prevSave[1].batch)
    /\ repeated' = TRUE
    /\ UNCHANGED <<prevSave, upVars>>
    /\ UNCHANGED <<readVars, lookupVars, viewVars, extraVars>>

\* The store answers the call in flight.
SaveRespond(o) ==
    /\ SaveReturn(o)
    /\ prevSave' = IF repeated THEN prevSave
                   ELSE IF uploadResult'[1].success
                        THEN <<[batch |-> saveArg, before |-> table,
                                table |-> table']>>
                        ELSE <<>>
    /\ UNCHANGED <<repeated, upVars>>
    /\ UNCHANGED <<readVars, lookupVars, viewVars, extraVars>>

\* The caller moves on to an unrelated batch.
SaveForget ==
    /\ savePc = "idle"
    /\ prevSave # <<>>
    /\ prevSave' = <<>>
    /\ repeated' = FALSE
    /\ UNCHANGED <<storeVars, saveVars, upVars>>
    /\ UNCHANGED <<readVars, lookupVars, viewVars, extraVars>>

InitTwiceIdle ==
    /\ prevSave = <<>>
    /\ repeated = FALSE

InitUpIdle ==
    /\ upPc = "idle"
    /\ data = <<>>
    /\ incrementalData = <<>>
    /\ existingData = {}
    /\ countAnswer = "none"
    /\ keysAnswer = "none"
    /\ giThrew = FALSE
    /\ tableBefore = <<>>
    /\ loaded = <<>>
    /\ saveCalls = 0

InitAggIdle ==
    /\ aggInput = <<>>
    /\ given = <<>>
    /\ campaigns = <<>>
    /\ adSets = <<>>

InitSortIdle ==
    /\ sortInput = <<>>
    /\ sortConfig = [column |-> "spend", direction |-> "desc"]
    /\ sorted = <<>>

InitLevelIdle ==
    /\ selectedCampaign = "null"
    /\ selectedAdSet = "null"
    /\ dailyData = <<>>
    /\ filteredAds = <<>>
    /\ aggregatedAds = <<>>

InitFilterIdle ==
    /\ filterInput = <<>>
    /\ filterConfig = <<>>
    /\ filtered = <<>>

InitClickIdle == clicks = 0 /\ clicked = "none" /\ streak = 0

InitDashIdle == InitLevelIdle /\ InitFilterIdle /\ InitClickIdle

InitViewIdle == InitAggIdle /\ InitSortIdle /\ InitDashIdle

InitParseIdle == csvRows = <<>> /\ parsed = <<>>

InitNavIdle == activeTab = "overview"

InitHomeIdle ==
    /\ adData = <<>>
    /\ isLoadingFromDB = FALSE
    /\ error = "null"
    /\ loads = <<>>
    /\ overridden = FALSE

InitExtraIdle == InitParseIdle /\ InitNavIdle /\ InitHomeIdle

InitReadIdle ==
    /\ rdPc = "idle"
    /\ rdOptions = <<>>
    /\ rdFrom = 0
    /\ allData = <<>>
    /\ rdResult = <<>>
    /\ rdAsked = <<>>
    /\ atStart = {}
    /\ serveOrder = <<>>

InitLookupIdle ==
    /\ lkOp = "none"
    /\ lkPc = "idle"
    /\ lkParts = <<>>
    /\ lkFailed = FALSE
    /\ lkResult = <<>>

InitSave ==
    /\ InitStore
    /\ InitSaveIdle /\ InitTwiceIdle /\ InitUpIdle /\ InitReadIdle /\ InitLookupIdle /\ InitViewIdle /\ InitExtraIdle

NextSave ==
    \/ \E b \in Batches : SaveCall(b)
    \/ SaveCallAgain
    \/ \E o \in StoreOutcomes : SaveRespond(o)
    \/ SaveForget

SpecSave == InitSave /\ [][NextSave]_vars

---------------------------------------------------------------------------
(* getIncrementalData and the upload pipeline (CSVUpload.handleFile) *)

\* Rows one request returns at most (1000 in the deployment, line 159 of
\* supabaseService.ts; scaled down here, as is pageSize).
maxRows == 2

\* `${ad_id}-${day}-${placement}-${platform}`: the key as the code renders it.
RenderKey(ad, d, pl, pf) == ad \o "-" \o d \o "-" \o pl \o "-" \o pf

\* select('ad_id, day, placement, platform'): the columns of one stored row.
KeyColumns(row) ==
    [ad_id |-> row.ad_id, day |-> row.day, placement |-> row.placement,
     platform |-> row.platform]

\* What an un-paged, unordered select over table t can return: every row when
\* they fit in one response, else any maxRows of them.
UnpagedSelect(t) ==
    { S \in SUBSET (1..Len(t)) : Cardinality(S) = Min(Len(t), maxRows) }

\* existingRecords: the rendered keys of the rows the key query returned.
ExistingRecords(rows) ==
    { RenderKey(r.ad_id, r.day, r.placement, r.platform) : r \in rows }

\* (mutant) nothing is filtered out.
FilterNewKeepsAll(newData, existingRecords) == newData

\* newData.filter(item => !existingRecords.has(key))
FilterNew(newData, existingRecords) ==
    SelectSeq(newData, LAMBDA item :
        RenderKey(item.adId, item.day, item.placement, item.platform)
            \notin existingRecords)

\* (mutant) the lookup error is rethrown to the caller.
OnLookupErrorThrows(newData) == [threw |-> TRUE, value |-> <<>>]

\* The three early exits of getIncrementalData: what the call gives back.
OnEmptyStore(newData)  == [threw |-> FALSE, value |-> newData]
OnLookupError(newData) == [threw |-> FALSE, value |-> newData]
OnException(newData)   == [threw |-> FALSE, value |-> newData]

CsvFiles == SeqsUpTo(UploadRecs, MaxCsv)

\* handleFile once getIncrementalData has settled with `ret`: an exception
\* ends the upload, an empty list is reported as nothing to save, anything
\* else goes to saveAdPerformanceData.
AfterIncremental(ret) ==
    /\ giThrew' = ret.threw
    /\ incrementalData' = ret.value
    /\ IF ret.threw
       THEN /\ upPc' = "done"
            /\ UNCHANGED <<saveVars, saveCalls>>
       ELSE IF ret.value = <<>>
       THEN /\ upPc' = "done"
            /\ uploadResult' = Result(TRUE, 0, <<>>, "No new data to save")
            /\ UNCHANGED <<savePc, saveArg, saveCalls>>
       ELSE /\ upPc' = "save"
            /\ savePc' = "await"
            /\ saveArg' = ret.value
            /\ saveCalls' = saveCalls + 1
            /\ uploadResult' = NoResult

\* (mutant) the dashboard is not given the records before the store is asked.
HandOffSkipped(d) == <<>>

\* onDataLoad(data): what the dashboard is given.
HandOff(d) == <<d>>

\* handleFile with the save-to-database box ticked, up to the first await of
\* getIncrementalData (the count query): the records go to the dashboard, then
\* the store is asked.  A file with no valid row is refused.
HandleFile(d) ==
    /\ upPc = "idle"
    /\ savePc = "idle"
    /\ IF d = <<>>
       THEN UNCHANGED upVars
       ELSE /\ upPc' = "count"
            /\ data' = d
            /\ loaded' = HandOff(d)
            /\ saveCalls' = 0
            /\ tableBefore' = table
            /\ UNCHANGED <<incrementalData, existingData, countAnswer,
                           keysAnswer, giThrew>>
    /\ uploadResult' = NoResult
    /\ UNCHANGED <<table, savePc, saveArg, twiceVars>>
    /\ UNCHANGED <<readVars, lookupVars, viewVars, extraVars>>

\* The count query (select '*', count exact, head) is answered.  Its error is
\* not looked at: count is then null, which is not 0.
CountRespond(o) ==
    /\ upPc = "count"
    /\ countAnswer' = o
    /\ IF o = "throw"
       THEN /\ AfterIncremental(OnException(data))
            /\ UNCHANGED <<existingData, keysAnswer>>
       ELSE IF o = "ok" /\ Len(table) = 0
       THEN /\ AfterIncremental(OnEmptyStore(data))
            /\ UNCHANGED <<existingData, keysAnswer>>
       ELSE /\ upPc' = "keys"
            /\ UNCHANGED <<incrementalData, existingData, keysAnswer, giThrew,
                           saveVars, saveCalls>>
    /\ UNCHANGED <<table, data, tableBefore, loaded, twiceVars>>
    /\ UNCHANGED <<readVars, lookupVars, viewVars, extraVars>>

\* The key query (select 'ad_id, day, placement, platform') is answered.
KeysRespond(o, returned) ==
    /\ upPc = "keys"
    /\ keysAnswer' = o
    /\ IF o = "throw"
       THEN /\ AfterIncremental(OnException(data))
            /\ UNCHANGED existingData
       ELSE IF o = "error"
       THEN /\ AfterIncremental(OnLookupError(data))
            /\ UNCHANGED existingData
       ELSE /\ existingData' = { KeyColumns(table[i]) : i \in returned }
            /\ AfterIncremental(
                 [threw |-> FALSE,
                  value |-> FilterNew(data, ExistingRecords(existingData'))])
    /\ UNCHANGED <<table, data, countAnswer, tableBefore, loaded, twiceVars>>
    /\ UNCHANGED <<readVars, lookupVars, viewVars, extraVars>>

\* The upsert of the incremental rows is answered; handleFile shows the result.
UploadSaveRespond(o) ==
    /\ upPc = "save"
    /\ SaveReturn(o)
    /\ upPc' = "done"
    /\ UNCHANGED <<data, incrementalData, existingData, countAnswer, keysAnswer,
                   giThrew, tableBefore, loaded, saveCalls, twiceVars>>
    /\ UNCHANGED <<readVars, lookupVars, viewVars, extraVars>>

\* handleFile has returned; the next file can be dropped.
UploadDone ==
    /\ upPc = "done"
    /\ upPc' = "idle"
    /\ data' = <<>>
    /\ incrementalData' = <<>>
    /\ existingData' = {}
    /\ countAnswer' = "none"
    /\ keysAnswer' = "none"
    /\ giThrew' = FALSE
    /\ tableBefore' = <<>>
    /\ loaded' = <<>>
    /\ saveCalls' = 0
    /\ uploadResult' = NoResult
    /\ UNCHANGED <<table, savePc, saveArg, twiceVars>>
    /\ UNCHANGED <<readVars, lookupVars, viewVars, extraVars>>

InitIngest ==
    /\ InitStore
    /\ InitSaveIdle /\ InitTwiceIdle /\ InitUpIdle /\ InitReadIdle /\ InitLookupIdle /\ InitViewIdle /\ InitExtraIdle

NextIngest ==
    \/ \E d \in CsvFiles : HandleFile(d)
    \/ \E o \in StoreOutcomes : CountRespond(o)
    \/ \E o \in StoreOutcomes : \E S \in UnpagedSelect(table) : KeysRespond(o, S)
    \/ \E o \in StoreOutcomes : UploadSaveRespond(o)
    \/ UploadDone

SpecIngest == InitIngest /\ [][NextIngest]_vars

\* The same pipeline fed only files of PlainRecs.
PlainCsvFiles == SeqsUpTo(PlainRecs, MaxCsv)

NextIngestPlain ==
    \/ \E d \in PlainCsvFiles : HandleFile(d)
    \/ \E o \in StoreOutcomes : CountRespond(o)
    \/ \E o \in StoreOutcomes : \E S \in UnpagedSelect(table) : KeysRespond(o, S)
    \/ \E o \in StoreOutcomes : UploadSaveRespond(o)
    \/ UploadDone

SpecIngestPlain == InitIngest /\ [][NextIngestPlain]_vars

---------------------------------------------------------------------------
(* getAdPerformanceData: the paged read *)

\* Rows a store may hold when a read starts.
MaxStored == 5

\* const pageSize = 1000 (scaled down with maxRows).
pageSize == 2

\* A stable sort: s reordered so that no element stands after one it must
\* precede, elements that tie keeping their order in s.  before[i][j] says
\* that the comparator puts s[i] before s[j].  This is what
\* Array.prototype.sort delivers.
StableSort(s, before) ==
    LET n == Len(s)
        Tied(i, j) == ~before[i][j] /\ ~before[j][i]
        Pos(i) == 1 + Cardinality({ j \in 1..n : before[j][i] })
                    + Cardinality({ j \in 1..(i - 1) : Tied(i, j) })
    IN  [k \in 1..n |-> s[CHOOSE i \in 1..n : Pos(i) = k]]

\* The rows the stores of the read model are made of: one per ad, the days
\* alternating, every other ad in campaign c2.
StoredRow(i) ==
    [ad_id |-> "a" \o ToString(i), day |-> Days[(i % 2) + 1],
     placement |-> "feed", platform |-> "fb",
     campaign_id |-> IF i % 3 = 0 THEN "c2" ELSE "c1",
     ad_set_id |-> IF i % 2 = 0 THEN "s2" ELSE "s1", amount_spent |-> i]

\* The tables a read can start from: any of the rows StoredRow(i), in the order of
\* their ad ids (a read does not depend on the order rows were written in).
StoredTables ==
    { LET ids == SelectSeq([i \in 1..MaxStored |-> i], LAMBDA i : i \in S)
      IN  [k \in 1..Len(ids) |-> StoredRow(ids[k])] : S \in SUBSET (1..MaxStored) }

\* The `options` a caller passes: '' and [] stand for an absent bound.
ReadOptions ==
    [startDate : {""} \cup Range(Days), endDate : {""} \cup Range(Days),
     campaignIds : {<<>>, <<"c1">>}]

\* .gte('day', startDate), .lte('day', endDate), .in('campaign_id', ids),
\* each applied only when the option is set.
Matches(row, options) ==
    /\ options.startDate # "" => DayRank(row.day) >= DayRank(options.startDate)
    /\ options.endDate # "" => DayRank(row.day) <= DayRank(options.endDate)
    /\ Len(options.campaignIds) > 0 => row.campaign_id \in Range(options.campaignIds)

\* Every arrangement of the rows of the set S.
RECURSIVE Arrangements(_)
Arrangements(S) ==
    IF S = {} THEN {<<>>}
    ELSE UNION { { <<x>> \o p : p \in Arrangements(S \ {x}) } : x \in S }

\* The arrangements of `rows` that run from day Days[k] down to Days[1].
RECURSIVE ByDayDesc(_, _)
ByDayDesc(rows, k) ==
    IF k = 0 THEN {<<>>}
    ELSE { p \o q : p \in Arrangements({ r \in rows : r.day = Days[k] }),
                    q \in ByDayDesc(rows, k - 1) }

\* .order('day', { ascending: false }) over the matching rows: the orders one
\* request can see them in.  `day` is the only sort key, so the rows of one
\* day come in whatever order the store produces for that request.
QueryRows(t, options) ==
    ByDayDesc({ t[i] : i \in { j \in 1..Len(t) : Matches(t[j], options) } },
              Len(Days))

\* The orders a request can see the matching rows in: any order by day when
\* the store keeps no order among the rows of a day, else the one order it
\* serves from.
Served(t, options) ==
    IF serveOrder = <<>> THEN QueryRows(t, options)
    ELSE { SelectSeq(serveOrder,
                     LAMBDA r : r \in Range(t) /\ Matches(r, options)) }

\* .range(from, from + pageSize - 1) of the rows as one request sees them: the
\* rows at those offsets, as many as one response carries.
PageOf(rows, from) ==
    SubSeq(rows, from + 1, Min(Len(rows), from + Min(pageSize, maxRows)))

\* (mutant) the first page is the only one.
HasMoreAfterNever(pageLen) == FALSE

\* (mutant) any page that is not empty asks for another.
HasMoreAfterAnyRows(pageLen) == pageLen # 0

\* hasMore after a non-empty page: a page shorter than pageSize is the last.
HasMoreAfter(pageLen) == ~(pageLen < pageSize)

\* getAdPerformanceData(options) up to its first await.
GetAdPerformanceData(options) ==
    /\ rdPc = "idle"
    /\ rdPc' = "page"
    /\ rdOptions' = options
    /\ rdFrom' = 0
    /\ allData' = <<>>
    /\ rdResult' = <<>>
    /\ rdAsked' = <<0>>
    /\ atStart' = { table[i] : i \in { j \in 1..Len(table) : Matches(table[j], options) } }
    /\ UNCHANGED serveOrder
    /\ UNCHANGED <<storeVars, saveVars, twiceVars, upVars, lookupVars, viewVars, extraVars>>

\* One page request is answered: an error is thrown on, an empty page ends
\* the loop, any other page is appended and a full one asks for the next.
PageRespond(o) ==
    /\ rdPc = "page"
    /\ IF o # "ok"
       THEN /\ rdPc' = "threw"
            /\ UNCHANGED <<rdFrom, allData, rdResult, rdAsked>>
       ELSE \E rows \in Served(table, rdOptions) :
            LET pageData == PageOf(rows, rdFrom)
                more == Len(pageData) # 0 /\ HasMoreAfter(Len(pageData))
                all == IF Len(pageData) = 0 THEN allData ELSE allData \o pageData
            IN  /\ allData' = all
                /\ rdFrom' = IF Len(pageData) = 0 THEN rdFrom ELSE rdFrom + pageSize
                /\ rdPc' = IF more THEN "page" ELSE "returned"
                /\ rdAsked' = IF more THEN Append(rdAsked, rdFrom') ELSE rdAsked
                /\ rdResult' = IF more THEN <<>>
                               ELSE [i \in 1..Len(all) |->
                                        convertFromSupabaseFormat(all[i])]
    /\ UNCHANGED <<rdOptions, atStart, serveOrder>>
    /\ UNCHANGED <<storeVars, saveVars, twiceVars, upVars, lookupVars, viewVars, extraVars>>

\* The caller has taken the result (or the exception).
ReadDone ==
    /\ rdPc \in {"returned", "threw"}
    /\ rdPc' = "idle"
    /\ rdOptions' = <<>>
    /\ rdFrom' = 0
    /\ allData' = <<>>
    /\ rdResult' = <<>>
    /\ rdAsked' = <<>>
    /\ atStart' = {}
    /\ UNCHANGED serveOrder
    /\ UNCHANGED <<storeVars, saveVars, twiceVars, upVars, lookupVars, viewVars, extraVars>>

InitRead ==
    /\ table \in StoredTables
    /\ InitSaveIdle /\ InitTwiceIdle /\ InitUpIdle /\ InitReadIdle /\ InitLookupIdle /\ InitViewIdle /\ InitExtraIdle

NextRead ==
    \/ \E options \in ReadOptions : GetAdPerformanceData(options)
    \/ \E o \in StoreOutcomes : PageRespond(o)
    \/ ReadDone

SpecRead == InitRead /\ [][NextRead]_vars

\* An upsert of one row with a new key commits while a read is under way.
InsertCommits(i) ==
    /\ rdPc = "page"
    /\ StoredRow(i) \notin Range(table)
    /\ table' = UpsertRows(table, <<StoredRow(i)>>)
    /\ UNCHANGED <<saveVars, twiceVars, upVars, readVars, lookupVars, viewVars, extraVars>>

\* Two orders of all rows the store can hold, latest day first: the rows of a
\* day in the order they were numbered, or in the reverse of it.
ServeOrders ==
    { p \in ByDayDesc({ StoredRow(i) : i \in 1..MaxStored }, Len(Days)) :
        \/ \A k \in 1..(Len(p) - 1) :
              p[k].day = p[k + 1].day => p[k].amount_spent < p[k + 1].amount_spent
        \/ \A k \in 1..(Len(p) - 1) :
              p[k].day = p[k + 1].day => p[k].amount_spent > p[k + 1].amount_spent }

\* The store serves every page from one order of its rows, latest day first.
InitReadInserts ==
    /\ table \in StoredTables
    /\ rdPc = "idle"
    /\ rdOptions = <<>>
    /\ rdFrom = 0
    /\ allData = <<>>
    /\ rdResult = <<>>
    /\ rdAsked = <<>>
    /\ atStart = {}
    /\ serveOrder \in ServeOrders
    /\ InitSaveIdle /\ InitTwiceIdle /\ InitUpIdle /\ InitLookupIdle
    /\ InitViewIdle /\ InitExtraIdle

NextReadInserts ==
    \/ \E options \in { r \in ReadOptions : r.campaignIds = <<>> } :
          GetAdPerformanceData(options)
    \/ \E o \in StoreOutcomes : PageRespond(o)
    \/ ReadDone
    \/ \E i \in 1..MaxStored : InsertCommits(i)

SpecReadInserts == InitReadInserts /\ [][NextReadInserts]_vars

\* The store answers every page request.
SpecReadFair ==
    SpecRead /\ WF_vars(\E o \in StoreOutcomes : PageRespond(o))

---------------------------------------------------------------------------
(* getAvailableDates and getDatabaseSummary *)

\* What a call gave back: a value returned, or an exception.
Gave(value) == <<[threw |-> FALSE, value |-> value]>>

\* The days of `rows`, each once, latest first: [...new Set(days)].sort().reverse()
UniqueDaysDesc(rows) ==
    LET days == { r.day : r \in rows }
        ranks == SelectSeq([k \in 1..Len(Days) |-> Len(Days) + 1 - k],
                           LAMBDA k : Days[k] \in days)
    IN  [i \in 1..Len(ranks) |-> Days[ranks[i]]]

\* The rows one response to select('day').order('day', descending) carries.
LatestRows(t) ==
    { Range(SubSeq(rows, 1, Min(Len(rows), maxRows))) :
        rows \in ByDayDesc(Range(t), Len(Days)) }

\* The day of the row .order('day', ascending).limit(1) returns, as a list.
FirstDay(t, ascending) ==
    IF t = <<>> THEN <<>>
    ELSE LET ranks == { DayRank(t[i].day) : i \in 1..Len(t) }
             pick == CHOOSE r \in ranks :
                        \A q \in ranks : IF ascending THEN r <= q ELSE r >= q
         IN  <<Days[pick]>>

\* The queries of getDatabaseSummary, in the order it awaits them.
SummaryQueries == <<"count", "minDay", "maxDay", "campaigns", "adSets", "ads">>

\* The answer of query q over table t when the store returns rows S of it:
\* <<x>> for data or count x.
SummaryData(q, t, S) ==
    CASE q = "count"     -> <<Len(t)>>
      [] q = "minDay"    -> <<FirstDay(t, TRUE)>>
      [] q = "maxDay"    -> <<FirstDay(t, FALSE)>>
      [] q = "campaigns" -> <<{ t[i].campaign_id : i \in S }>>
      [] q = "adSets"    -> <<{ t[i].ad_set_id : i \in S }>>
      [] q = "ads"       -> <<{ t[i].ad_id : i \in S }>>

\* data?.map(...) || [] and count || 0: a null answer (<<>>) counts nothing.
SizeOrZero(part) == IF part = <<>> THEN 0 ELSE Cardinality(part[1])
CountOrZero(part) == IF part = <<>> THEN 0 ELSE part[1]

\* The object getDatabaseSummary returns from the six answers.
SummaryOf(parts) ==
    [totalRecords |-> CountOrZero(parts[1]),
     dateRange |-> IF parts[2] # <<>> /\ parts[3] # <<>>
                      /\ Len(parts[2][1]) > 0 /\ Len(parts[3][1]) > 0
                   THEN <<[start |-> parts[2][1][1], end |-> parts[3][1][1]]>>
                   ELSE <<>>,
     campaignCount |-> SizeOrZero(parts[4]),
     adSetCount |-> SizeOrZero(parts[5]),
     adCount |-> SizeOrZero(parts[6])]

\* The object its catch block returns.
SummaryOnException ==
    [totalRecords |-> 0, dateRange |-> <<>>, campaignCount |-> 0,
     adSetCount |-> 0, adCount |-> 0]

\* getAvailableDates() up to its await.
GetAvailableDates ==
    /\ lkPc = "idle"
    /\ lkOp' = "dates"
    /\ lkPc' = "await"
    /\ lkParts' = <<>>
    /\ lkFailed' = FALSE
    /\ lkResult' = <<>>
    /\ UNCHANGED <<storeVars, saveVars, twiceVars, upVars, readVars, viewVars, extraVars>>

\* Its query is answered: an error and an exception both give [].
DatesRespond(o) ==
    /\ lkOp = "dates"
    /\ lkPc = "await"
    /\ lkPc' = "returned"
    /\ lkFailed' = (o # "ok")
    /\ IF o = "ok"
       THEN \E rows \in LatestRows(table) : lkResult' = Gave(UniqueDaysDesc(rows))
       ELSE lkResult' = Gave(<<>>)
    /\ UNCHANGED <<lkOp, lkParts>>
    /\ UNCHANGED <<storeVars, saveVars, twiceVars, upVars, readVars, viewVars, extraVars>>

\* getDatabaseSummary() up to its first await.
GetDatabaseSummary ==
    /\ lkPc = "idle"
    /\ lkOp' = "summary"
    /\ lkPc' = "await"
    /\ lkParts' = <<>>
    /\ lkFailed' = FALSE
    /\ lkResult' = <<>>
    /\ UNCHANGED <<storeVars, saveVars, twiceVars, upVars, readVars, viewVars, extraVars>>

\* Its next query is answered.  The error of an answer is not looked at (its
\* data or count is then null); an exception goes to the catch block; the
\* sixth answer completes the summary.
SummaryRespond(o, S) ==
    /\ lkOp = "summary"
    /\ lkPc = "await"
    /\ LET q == SummaryQueries[Len(lkParts) + 1]
           parts == Append(lkParts, IF o = "ok" THEN SummaryData(q, table, S)
                                    ELSE <<>>)
       IN  /\ lkFailed' = (lkFailed \/ o # "ok")
           /\ IF o = "throw"
              THEN /\ lkPc' = "returned"
                   /\ lkResult' = Gave(SummaryOnException)
                   /\ UNCHANGED lkParts
              ELSE /\ lkParts' = parts
                   /\ IF Len(parts) = Len(SummaryQueries)
                      THEN /\ lkPc' = "returned"
                           /\ lkResult' = Gave(SummaryOf(parts))
                      ELSE /\ lkPc' = "await"
                           /\ UNCHANGED lkResult
    /\ UNCHANGED lkOp
    /\ UNCHANGED <<storeVars, saveVars, twiceVars, upVars, readVars, viewVars, extraVars>>

\* The caller has taken the result.
LookupDone ==
    /\ lkPc = "returned"
    /\ lkOp' = "none"
    /\ lkPc' = "idle"
    /\ lkParts' = <<>>
    /\ lkFailed' = FALSE
    /\ lkResult' = <<>>
    /\ UNCHANGED <<storeVars, saveVars, twiceVars, upVars, readVars, viewVars, extraVars>>

InitLookup ==
    /\ table \in StoredTables
    /\ InitSaveIdle /\ InitTwiceIdle /\ InitUpIdle /\ InitReadIdle /\ InitLookupIdle
    /\ InitViewIdle /\ InitExtraIdle

NextLookup ==
    \/ GetAvailableDates
    \/ \E o \in StoreOutcomes : DatesRespond(o)
    \/ GetDatabaseSummary
    \/ \E o \in StoreOutcomes : \E S \in UnpagedSelect(table) : SummaryRespond(o, S)
    \/ LookupDone

SpecLookup == InitLookup /\ [][NextLookup]_vars

---------------------------------------------------------------------------
(* aggregateByCampaign and aggregateByAdSet *)

\* Longest row list handed to the aggregations.
MaxInput == 2

\* A quotient n / d kept exact, and the number 0.
Ratio(n, d) == [num |-> n, den |-> d]
Zero == Ratio(0, 1)

RECURSIVE SumSeq(_)
SumSeq(s) == IF s = <<>> THEN 0 ELSE Head(s) + SumSeq(Tail(s))

\* The number NaN.  Every other number of the model is 0 or more.
NaN == -1

\* isNaN(x) ? 0 : x
ZeroIfNaN(x) == IF x = NaN THEN 0 ELSE x

\* x * y and x + y of numbers that may be NaN.
Times(x, y) == IF x = NaN \/ y = NaN THEN NaN ELSE x * y
Plus(x, y) == IF x = NaN \/ y = NaN THEN NaN ELSE x + y

\* reduce((sum, x) => sum + x, 0) over numbers that may be NaN.
RECURSIVE SumNaN(_)
SumNaN(s) == IF s = <<>> THEN 0 ELSE Plus(Head(s), SumNaN(Tail(s)))

\* The rows the aggregations are fed: a campaign (one of them under two
\* names), an ad set (one of them under two names) with an ad, and the
\* metrics of the row.
CampaignsIn == { <<"c1", "A">>, <<"c1", "B">>, <<"c2", "A">> }
AdsIn == { <<"s1", "X", "a1">>, <<"s1", "X", "a2">>, <<"s1", "Y", "a1">>,
           <<"s2", "X", "a2">> }
MetricsIn ==
    { [amountSpent |-> 0, purchaseRoas |-> 2, ctrAll |-> 1, results |-> 0,
       impressions |-> 10, reach |-> 5],
      [amountSpent |-> 1, purchaseRoas |-> 3, ctrAll |-> 2, results |-> 1,
       impressions |-> 20, reach |-> 10],
      [amountSpent |-> 2, purchaseRoas |-> 1, ctrAll |-> 4, results |-> 0,
       impressions |-> 40, reach |-> 30] }

AggRow(c, a, m) ==
    [campaignId |-> c[1], campaignName |-> c[2], adSetId |-> a[1],
     adSetName |-> a[2], adId |-> a[3], amountSpent |-> m.amountSpent,
     purchaseRoas |-> m.purchaseRoas, ctrAll |-> m.ctrAll,
     results |-> m.results, impressions |-> m.impressions, reach |-> m.reach,
     starts |-> "2025-08-01", ends |-> "Ongoing"]

AggRows == { AggRow(c, a, m) : c \in CampaignsIn, a \in AdsIn, m \in MetricsIn }

AggInputs == SeqsUpTo(AggRows, MaxInput)

\* `${row.campaignId}-${row.campaignName}` and `${row.adSetId}-${row.adSetName}`
CampaignKey(row) == row.campaignId \o "-" \o row.campaignName
AdSetKey(row) == row.adSetId \o "-" \o row.adSetName

\* (mutant) the totals of an entry are those of its last row.
AddRowOverwrites(map, key, fresh, row) ==
    LET entries == IF \E i \in 1..Len(map) : map[i].key = key
                   THEN map
                   ELSE Append(map, [key |-> key, value |-> fresh])
    IN  [i \in 1..Len(entries) |->
            IF entries[i].key = key
            THEN [key |-> key,
                  value |-> [entries[i].value EXCEPT
                      !.totalSpend = row.amountSpent,
                      !.totalResults = row.results,
                      !.totalImpressions = row.impressions,
                      !.totalReach = row.reach]]
            ELSE entries[i]]

\* The Map of the first pass, as its entries in insertion order: the entry of
\* the row's key is created on first sight and the row's sums are added to it.
AddRow(map, key, fresh, row) ==
    LET entries == IF \E i \in 1..Len(map) : map[i].key = key
                   THEN map
                   ELSE Append(map, [key |-> key, value |-> fresh])
    IN  [i \in 1..Len(entries) |->
            IF entries[i].key = key
            THEN [key |-> key,
                  value |-> [entries[i].value EXCEPT
                      !.totalSpend = @ + row.amountSpent,
                      !.totalResults = @ + row.results,
                      !.totalImpressions = @ + row.impressions,
                      !.totalReach = @ + row.reach]]
            ELSE entries[i]]

FreshCampaign(row) ==
    [campaignName |-> row.campaignName, campaignId |-> row.campaignId,
     totalSpend |-> 0, totalResults |-> 0, totalImpressions |-> 0,
     totalReach |-> 0, avgRoas |-> Zero, avgCtr |-> Zero,
     costPerResult |-> Zero, adCount |-> 0, adSetCount |-> 0,
     starts |-> row.starts, ends |-> row.ends]

FreshAdSet(row) ==
    [adSetName |-> row.adSetName, adSetId |-> row.adSetId,
     campaignName |-> row.campaignName, campaignId |-> row.campaignId,
     totalSpend |-> 0, totalResults |-> 0, totalImpressions |-> 0,
     totalReach |-> 0, avgRoas |-> Zero, avgCtr |-> Zero,
     costPerResult |-> Zero, adCount |-> 0]

RECURSIVE CampaignMap(_, _)
CampaignMap(map, rows) ==
    IF rows = <<>> THEN map
    ELSE CampaignMap(AddRow(map, CampaignKey(Head(rows)),
                            FreshCampaign(Head(rows)), Head(rows)),
                     Tail(rows))

RECURSIVE AdSetMap(_, _)
AdSetMap(map, rows) ==
    IF rows = <<>> THEN map
    ELSE AdSetMap(AddRow(map, AdSetKey(Head(rows)),
                         FreshAdSet(Head(rows)), Head(rows)),
                  Tail(rows))

\* (mutant) the rows are counted, not the distinct ids.
UniqueCountCountsRows(ids) == Len(ids)

\* new Set(ids).size
UniqueCount(ids) == Cardinality(Range(ids))

\* reduce((sum, ad) => sum + ratio * ad.amountSpent, 0) for ROAS and for CTR.
RoasWeighted(rows) ==
    SumSeq([i \in 1..Len(rows) |->
              ZeroIfNaN(rows[i].purchaseRoas) * rows[i].amountSpent])
CtrWeighted(rows) ==
    SumSeq([i \in 1..Len(rows) |->
              ZeroIfNaN(rows[i].ctrAll) * rows[i].amountSpent])

\* The second pass over one campaign: the rows are found again by campaignId.
FinishCampaign(campaign, rows) ==
    LET campaignAds == SelectSeq(rows, LAMBDA row :
                                    row.campaignId = campaign.campaignId)
        totalSpend == campaign.totalSpend
    IN  [campaign EXCEPT
            !.adSetCount = UniqueCount([i \in 1..Len(campaignAds) |->
                                           campaignAds[i].adSetId]),
            !.adCount = UniqueCount([i \in 1..Len(campaignAds) |->
                                        campaignAds[i].adId]),
            !.costPerResult = IF campaign.totalResults > 0
                              THEN Ratio(campaign.totalSpend, campaign.totalResults)
                              ELSE Zero,
            !.avgRoas = IF totalSpend > 0
                        THEN Ratio(RoasWeighted(campaignAds), totalSpend) ELSE @,
            !.avgCtr = IF totalSpend > 0
                       THEN Ratio(CtrWeighted(campaignAds), totalSpend) ELSE @]

\* The second pass over one ad set: the rows are found again by adSetId.
FinishAdSet(adSet, rows) ==
    LET adSetAds == SelectSeq(rows, LAMBDA row : row.adSetId = adSet.adSetId)
        totalSpend == adSet.totalSpend
    IN  [adSet EXCEPT
            !.adCount = UniqueCount([i \in 1..Len(adSetAds) |-> adSetAds[i].adId]),
            !.costPerResult = IF adSet.totalResults > 0
                              THEN Ratio(adSet.totalSpend, adSet.totalResults)
                              ELSE Zero,
            !.avgRoas = IF totalSpend > 0
                        THEN Ratio(RoasWeighted(adSetAds), totalSpend) ELSE @,
            !.avgCtr = IF totalSpend > 0
                       THEN Ratio(CtrWeighted(adSetAds), totalSpend) ELSE @]

\* (mutant) the summaries are left in the order of the Map.
BySpendDescUnsorted(list) == list

\* sort((a, b) => b.totalSpend - a.totalSpend)
BySpendDesc(list) ==
    StableSort(list, [i \in 1..Len(list) |-> [j \in 1..Len(list) |->
                        list[j].totalSpend - list[i].totalSpend < 0]])

aggregateByCampaign(rows) ==
    LET map == CampaignMap(<<>>, rows)
    IN  BySpendDesc([i \in 1..Len(map) |-> FinishCampaign(map[i].value, rows)])

aggregateByAdSet(rows) ==
    LET map == AdSetMap(<<>>, rows)
    IN  BySpendDesc([i \in 1..Len(map) |-> FinishAdSet(map[i].value, rows)])

\* The dashboard computes `campaigns` and `adSets` from its rows.
ComputeCampaigns ==
    /\ campaigns = <<>>
    /\ campaigns' = <<aggregateByCampaign(aggInput)>>
    /\ UNCHANGED <<aggInput, given, adSets>>
    /\ UNCHANGED <<sortVars, dashVars, gatewayVars, extraVars>>

ComputeAdSets ==
    /\ adSets = <<>>
    /\ adSets' = <<aggregateByAdSet(aggInput)>>
    /\ UNCHANGED <<aggInput, given, campaigns>>
    /\ UNCHANGED <<sortVars, dashVars, gatewayVars, extraVars>>

InitAgg ==
    /\ aggInput \in AggInputs
    /\ given = aggInput
    /\ campaigns = <<>>
    /\ adSets = <<>>
    /\ InitSortIdle /\ InitDashIdle
    /\ InitStore
    /\ InitSaveIdle /\ InitTwiceIdle /\ InitUpIdle /\ InitReadIdle /\ InitLookupIdle
    /\ InitExtraIdle

NextAgg == ComputeCampaigns \/ ComputeAdSets

SpecAgg == InitAgg /\ [][NextAgg]_vars

---------------------------------------------------------------------------
(* Dashboard: dailyData, filteredAds and aggregatedAds *)

\* Longest row list the dashboard is given.
MaxRows == 3

\* The metrics of a row: spend, ROAS, CTR, results, impressions, reach.
Metrics(spend, roas, ctr, results, impressions, reach) ==
    [amountSpent |-> spend, purchaseRoas |-> roas, ctrAll |-> ctr,
     results |-> results, impressions |-> impressions, reach |-> reach]

\* A row of the dashboard.  Ad a1 belongs to campaign c1 and ad set s1, any
\* other ad to c2 and s2.
LevelRow(ad, d, pl, pf, status, m) ==
    [campaignId |-> IF ad = "a1" THEN "c1" ELSE "c2",
     campaignName |-> IF ad = "a1" THEN "A" ELSE "B",
     adSetId |-> IF ad = "a1" THEN "s1" ELSE "s2",
     adSetName |-> IF ad = "a1" THEN "X" ELSE "Y",
     adId |-> ad, day |-> d, placement |-> pl, platform |-> pf,
     deliveryStatus |-> status,
     amountSpent |-> m.amountSpent, purchaseRoas |-> m.purchaseRoas,
     ctrAll |-> m.ctrAll, results |-> m.results,
     impressions |-> m.impressions, reach |-> m.reach,
     starts |-> "2025-08-01", ends |-> "Ongoing"]

\* Rows of two ads on one day over placements and platforms, one of the three
\* metric sets without spend.
MergeRows ==
    { LevelRow(ad, Days[2], pp[1], pp[2], "active", m) :
        ad \in {"a1", "a2"},
        pp \in { <<"feed", "fb">>, <<"story", "ig">> },
        m \in { Metrics(100, 2, 1, 1, 10, 5), Metrics(50, 4, 3, 0, 20, 10),
                Metrics(0, 0, 0, 0, 30, 20) } }

\* Rows of one ad that differ in deliveryStatus only.
StatusRows ==
    { LevelRow("a1", Days[2], "feed", "fb", status, Metrics(50, 4, 3, 0, 20, 10)) :
        status \in {"active", "not_delivering", "inactive", "archived",
                    "paused", ""} }

\* Rows over the days (and without a day), some with ratios that are NaN.
DayRows ==
    { LevelRow(ad, d, "feed", "fb", "active", m) :
        ad \in {"a1", "a2"},
        d \in Range(Days) \cup {""},
        m \in { Metrics(100, 2, 1, 1, 10, 5), Metrics(50, NaN, NaN, 0, 20, 10) } }

\* What the dashboard is given, and what is selected in it.
LevelInputs ==
    (SeqsUpTo(MergeRows, MaxRows) \X { <<"null", "null">>, <<"c1", "null">>,
                                       <<"c1", "s1">> })
    \cup ((SeqsUpTo(StatusRows, MaxRows) \cup SeqsUpTo(DayRows, MaxRows))
            \X { <<"null", "null">> })

\* The dayMap of dailyData, as its entries in insertion order: rows without a
\* day are skipped, the entry of a day is created on first sight.
RECURSIVE DayMap(_, _)
DayMap(map, rows) ==
    IF rows = <<>> THEN map
    ELSE LET row == Head(rows)
             entries == IF \E i \in 1..Len(map) : map[i].day = row.day
                        THEN map
                        ELSE Append(map, [day |-> row.day, totalSpend |-> 0,
                                          totalResults |-> 0, totalImpressions |-> 0,
                                          totalReach |-> 0, campaignCount |-> {},
                                          adSetCount |-> {}, adCount |-> {}])
         IN  IF row.day = "" THEN DayMap(map, Tail(rows))
             ELSE DayMap([i \in 1..Len(entries) |->
                            IF entries[i].day = row.day
                            THEN [entries[i] EXCEPT
                                    !.totalSpend = @ + row.amountSpent,
                                    !.totalResults = @ + row.results,
                                    !.totalImpressions = @ + row.impressions,
                                    !.totalReach = @ + row.reach,
                                    !.campaignCount = @ \cup {row.campaignId},
                                    !.adSetCount = @ \cup {row.adSetId},
                                    !.adCount = @ \cup {row.adId}]
                            ELSE entries[i]],
                         Tail(rows))

\* One entry of dailyArray: the sets become counts, the averages are taken
\* over the rows of the day.
FinishDay(day, rows) ==
    LET dayRows == SelectSeq(rows, LAMBDA row : row.day = day.day)
    IN  [day |-> day.day, totalSpend |-> day.totalSpend,
         totalResults |-> day.totalResults,
         totalImpressions |-> day.totalImpressions,
         totalReach |-> day.totalReach,
         campaignCount |-> Cardinality(day.campaignCount),
         adSetCount |-> Cardinality(day.adSetCount),
         adCount |-> Cardinality(day.adCount),
         avgRoas |-> IF day.totalSpend > 0
                     THEN Ratio(SumNaN([i \in 1..Len(dayRows) |->
                                  Times(dayRows[i].purchaseRoas,
                                        dayRows[i].amountSpent)]),
                                day.totalSpend)
                     ELSE Zero,
         avgCtr |-> IF day.totalSpend > 0
                    THEN Ratio(SumNaN([i \in 1..Len(dayRows) |->
                                 Times(dayRows[i].ctrAll, dayRows[i].amountSpent)]),
                               day.totalSpend)
                    ELSE Zero,
         costPerResult |-> IF day.totalResults > 0
                           THEN Ratio(day.totalSpend, day.totalResults)
                           ELSE Zero]

\* sort((a, b) => b.day.localeCompare(a.day))
ByDayDescending(list) ==
    StableSort(list, [i \in 1..Len(list) |-> [j \in 1..Len(list) |->
                        DayRank(list[i].day) > DayRank(list[j].day)]])

\* The value of the dailyData memo.
DailyDataOf(rows) ==
    LET map == DayMap(<<>>, rows)
    IN  ByDayDescending([i \in 1..Len(map) |-> FinishDay(map[i], rows)])

\* (mutant) the rows without spend stay in.
FilteredAdsKeepingAll(rows, campaign, adSet) ==
    IF adSet # "null"
    THEN SelectSeq(rows, LAMBDA ad : ad.adSetId = adSet)
    ELSE IF campaign # "null"
    THEN SelectSeq(rows, LAMBDA ad : ad.campaignId = campaign)
    ELSE rows

\* The value of the filteredAds memo: the rows of the selection, those without
\* spend left out.
FilteredAdsOf(rows, campaign, adSet) ==
    LET baseData ==
            IF adSet # "null"
            THEN SelectSeq(rows, LAMBDA ad : ad.adSetId = adSet)
            ELSE IF campaign # "null"
            THEN SelectSeq(rows, LAMBDA ad : ad.campaignId = campaign)
            ELSE rows
    IN  SelectSeq(baseData, LAMBDA ad : ad.amountSpent > 0)

\* (mutant) no status outranks another.
StatusPriorityFlat(status) == 0

\* statusPriority[status] || 0
StatusPriority(status) ==
    CASE status = "active" -> 4
      [] status = "not_delivering" -> 3
      [] status = "inactive" -> 2
      [] status = "archived" -> 1
      [] OTHER -> 0

\* list.includes(x) || list.push(x)
PushNew(list, x) == IF x \in Range(list) THEN list ELSE Append(list, x)

\* The quotient n / d of two naturals (d > 0) in lowest terms.
RECURSIVE GCD(_, _)
GCD(a, b) == IF b = 0 THEN a ELSE GCD(b, a % b)

Reduced(n, d) == Ratio(n \div GCD(n, d), d \div GCD(n, d))

\* (mutant) the plain mean of the old average and the new ratio.
ReweightedPlainMean(old, oldSpend, ratio, spend, totalSpend) ==
    IF old.num = NaN \/ ratio = NaN
    THEN Ratio(NaN, 1)
    ELSE Ratio(old.num + ratio * old.den, 2 * old.den)

\* (old * oldSpend + ratio * spend) / totalSpend, the quotient kept exact and
\* in lowest terms.
Reweighted(old, oldSpend, ratio, spend, totalSpend) ==
    IF old.num = NaN \/ ratio = NaN
    THEN Ratio(NaN, 1)
    ELSE Reduced(old.num * oldSpend + ratio * spend * old.den,
                 old.den * totalSpend)

\* The entry adMap gets for the first row of an ad.
FirstOfAd(ad) ==
    [adId |-> ad.adId, campaignId |-> ad.campaignId, adSetId |-> ad.adSetId,
     day |-> ad.day, placement |-> ad.placement, platform |-> ad.platform,
     deliveryStatus |-> ad.deliveryStatus,
     amountSpent |-> ad.amountSpent, results |-> ad.results,
     impressions |-> ad.impressions, reach |-> ad.reach,
     purchaseRoas |-> Ratio(ad.purchaseRoas, 1), ctrAll |-> Ratio(ad.ctrAll, 1),
     totalSpend |-> ad.amountSpent, totalResults |-> ad.results,
     totalImpressions |-> ad.impressions, totalReach |-> ad.reach,
     placements |-> <<ad.placement>>, platforms |-> <<ad.platform>>,
     statuses |-> <<ad.deliveryStatus>>]

\* A further row of an ad merged into its entry.
MergeAd(existing, ad) ==
    LET totalSpend == existing.totalSpend + ad.amountSpent
        totalResults == existing.totalResults + ad.results
        totalImpressions == existing.totalImpressions + ad.impressions
        totalReach == existing.totalReach + ad.reach
    IN  [existing EXCEPT
            !.totalSpend = totalSpend,
            !.totalResults = totalResults,
            !.totalImpressions = totalImpressions,
            !.totalReach = totalReach,
            !.placements = PushNew(@, ad.placement),
            !.platforms = PushNew(@, ad.platform),
            !.statuses = PushNew(@, ad.deliveryStatus),
            !.deliveryStatus =
                IF StatusPriority(ad.deliveryStatus) > StatusPriority(@)
                THEN ad.deliveryStatus ELSE @,
            !.purchaseRoas =
                IF totalSpend > 0
                THEN Reweighted(@, existing.amountSpent, ad.purchaseRoas,
                                ad.amountSpent, totalSpend)
                ELSE Zero,
            !.ctrAll =
                IF totalSpend > 0
                THEN Reweighted(@, existing.amountSpent, ad.ctrAll,
                                ad.amountSpent, totalSpend)
                ELSE Zero,
            !.amountSpent = totalSpend,
            !.results = totalResults,
            !.impressions = totalImpressions,
            !.reach = totalReach]

\* adMap, as its values in insertion order.
RECURSIVE AdMap(_, _)
AdMap(map, rows) ==
    IF rows = <<>> THEN map
    ELSE LET ad == Head(rows)
         IN  AdMap(IF \E i \in 1..Len(map) : map[i].adId = ad.adId
                   THEN [i \in 1..Len(map) |->
                            IF map[i].adId = ad.adId THEN MergeAd(map[i], ad)
                            ELSE map[i]]
                   ELSE Append(map, FirstOfAd(ad)),
                   Tail(rows))

\* The value of the aggregatedAds memo: Array.from(adMap.values())
AggregatedAdsOf(ads) == AdMap(<<>>, ads)

\* (mutant) adMap holds the row object itself.
EntryIsTheRow(ad) == TRUE

\* Whether the entry adMap gets for the first row of an ad is that row object:
\* it is not, { ...ad, ... } is a new object.
EntryIsRow(ad) == FALSE

\* The rows after the merge has written to its entries: a row that is the
\* entry of its ad carries what the merge assigned to the entry.
RowsAfterMerge(rows, campaign, adSet, merged) ==
    [i \in 1..Len(rows) |->
        LET row == rows[i]
            earlier == FilteredAdsOf(SubSeq(rows, 1, i - 1), campaign, adSet)
            first == /\ FilteredAdsOf(<<row>>, campaign, adSet) # <<>>
                     /\ \A k \in 1..Len(earlier) : earlier[k].adId # row.adId
        IN  IF first /\ EntryIsRow(row)
            THEN LET entry == CHOOSE e \in Range(merged) : e.adId = row.adId
                 IN  [row EXCEPT !.amountSpent = entry.amountSpent,
                                 !.results = entry.results,
                                 !.impressions = entry.impressions,
                                 !.reach = entry.reach,
                                 !.deliveryStatus = entry.deliveryStatus]
            ELSE row]

\* The memos of one render, in the order the component evaluates them.
ComputeDailyData ==
    /\ dailyData = <<>>
    /\ dailyData' = <<DailyDataOf(aggInput)>>
    /\ UNCHANGED <<selectedCampaign, selectedAdSet, filteredAds, aggregatedAds>>
    /\ UNCHANGED <<aggVars, sortVars, filterVars, clickVars, gatewayVars, extraVars>>

ComputeFilteredAds ==
    /\ filteredAds = <<>>
    /\ filteredAds' = <<FilteredAdsOf(aggInput, selectedCampaign, selectedAdSet)>>
    /\ UNCHANGED <<selectedCampaign, selectedAdSet, dailyData, aggregatedAds>>
    /\ UNCHANGED <<aggVars, sortVars, filterVars, clickVars, gatewayVars, extraVars>>

ComputeAggregatedAds ==
    /\ filteredAds # <<>>
    /\ aggregatedAds = <<>>
    /\ aggregatedAds' = <<AggregatedAdsOf(filteredAds[1])>>
    /\ aggInput' = RowsAfterMerge(aggInput, selectedCampaign, selectedAdSet,
                                  aggregatedAds'[1])
    /\ UNCHANGED <<selectedCampaign, selectedAdSet, dailyData, filteredAds>>
    /\ UNCHANGED <<given, campaigns, adSets>>
    /\ UNCHANGED <<sortVars, filterVars, clickVars, gatewayVars, extraVars>>

InitLevels ==
    /\ \E in \in LevelInputs :
         /\ aggInput = in[1]
         /\ given = in[1]
         /\ selectedCampaign = in[2][1]
         /\ selectedAdSet = in[2][2]
    /\ campaigns = <<>>
    /\ adSets = <<>>
    /\ dailyData = <<>>
    /\ filteredAds = <<>>
    /\ aggregatedAds = <<>>
    /\ InitSortIdle /\ InitFilterIdle /\ InitClickIdle
    /\ InitStore
    /\ InitSaveIdle /\ InitTwiceIdle /\ InitUpIdle /\ InitReadIdle /\ InitLookupIdle
    /\ InitExtraIdle

NextLevels ==
    \/ ComputeCampaigns
    \/ (campaigns # <<>> /\ ComputeAdSets)
    \/ (adSets # <<>> /\ ComputeDailyData)
    \/ (dailyData # <<>> /\ ComputeFilteredAds)
    \/ ComputeAggregatedAds

SpecLevels == InitLevels /\ [][NextLevels]_vars

---------------------------------------------------------------------------
(* sortData *)

\* Longest list handed to sortData.
MaxItems == 3

\* An optional numeric field: <<>> when the item has no such field.
Absent == <<>>
Some(v) == <<v>>

\* x || y || 0 over two optional numbers: the first that is present and not 0.
Truthy(o) == o # Absent /\ o[1] # 0
OrElse(x, y) == IF Truthy(x) THEN x[1] ELSE IF Truthy(y) THEN y[1] ELSE 0

\* The items the tables sort: raw rows and merged ads carry deliveryStatus and
\* the per-row fields, summaries carry the totals and no deliveryStatus
\* ("undefined").  The four metrics of an item differ from one another.
RawItem(status, v) ==
    [deliveryStatus |-> status,
     totalSpend |-> Absent, amountSpent |-> Some(v),
     totalResults |-> Absent, results |-> Some(2 - v),
     avgRoas |-> Absent, purchaseRoas |-> Some((v + 1) % 3),
     avgCtr |-> Absent, ctrAll |-> Some(IF v = 1 THEN 0 ELSE 1)]

SummaryItem(v) ==
    [deliveryStatus |-> "undefined",
     totalSpend |-> Some(v), amountSpent |-> Absent,
     totalResults |-> Some(2 - v), results |-> Absent,
     avgRoas |-> Some((v + 1) % 3), purchaseRoas |-> Absent,
     avgCtr |-> Some(IF v = 1 THEN 0 ELSE 1), ctrAll |-> Absent]

SortItems ==
    { RawItem(st, v) : st \in {"active", "inactive"}, v \in 0..2 }
        \cup { SummaryItem(v) : v \in 0..2 }

\* SortConfig: column 'spend' | 'results' | 'roas' | 'ctr' | null, direction.
SortConfigs ==
    [column : {"spend", "results", "roas", "ctr", "null"},
     direction : {"asc", "desc"}]

\* The value the switch picks for an item under a column.
SortValue(item, column) ==
    CASE column = "spend"   -> OrElse(item.totalSpend, item.amountSpent)
      [] column = "results" -> OrElse(item.totalResults, item.results)
      [] column = "roas"    -> OrElse(item.avgRoas, item.purchaseRoas)
      [] column = "ctr"     -> OrElse(item.avgCtr, item.ctrAll)

\* (mutant) the comparator without its first priority.
CompareIgnoringStatus(a, b, config) ==
    IF config.column = "null" THEN 0
    ELSE IF config.direction = "desc"
         THEN SortValue(b, config.column) - SortValue(a, config.column)
         ELSE SortValue(a, config.column) - SortValue(b, config.column)

\* The comparator of sortData: active items first, then the column.
Compare(a, b, config) ==
    LET aIsActive == a.deliveryStatus = "active"
        bIsActive == b.deliveryStatus = "active"
    IN  IF aIsActive /\ ~bIsActive THEN -1
        ELSE IF ~aIsActive /\ bIsActive THEN 1
        ELSE IF config.column = "null" THEN 0
        ELSE IF config.direction = "desc"
             THEN SortValue(b, config.column) - SortValue(a, config.column)
             ELSE SortValue(a, config.column) - SortValue(b, config.column)

\* [...data].sort(comparator)
sortData(list, config) ==
    StableSort(list, [i \in 1..Len(list) |-> [j \in 1..Len(list) |->
                        Compare(list[i], list[j], config) < 0]])

\* A table is rendered: its rows go through sortData.
SortData ==
    /\ sorted = <<>>
    /\ sorted' = <<sortData(sortInput, sortConfig)>>
    /\ UNCHANGED <<sortInput, sortConfig, aggVars, dashVars, gatewayVars, extraVars>>

InitSort ==
    /\ sortInput \in SeqsUpTo(SortItems, MaxItems)
    /\ sortConfig \in SortConfigs
    /\ sorted = <<>>
    /\ InitAggIdle /\ InitDashIdle
    /\ InitStore
    /\ InitSaveIdle /\ InitTwiceIdle /\ InitUpIdle /\ InitReadIdle /\ InitLookupIdle
    /\ InitExtraIdle

NextSort == SortData

SpecSort == InitSort /\ [][NextSort]_vars

---------------------------------------------------------------------------
(* parseAdPerformanceCSV *)

\* Most data rows in one CSV.
MaxParse == 2

\* A cell is absent (the row has no such column) or a text, written as the
\* sequence of its characters: a blank, a double quote or a letter.
Blank == " "
Quote == "\""

RECURSIVE TrimStart(_)
TrimStart(t) == IF t # <<>> /\ Head(t) = Blank THEN TrimStart(Tail(t)) ELSE t

RECURSIVE TrimEnd(_)
TrimEnd(t) ==
    IF t # <<>> /\ t[Len(t)] = Blank THEN TrimEnd(SubSeq(t, 1, Len(t) - 1)) ELSE t

\* replace(/^"(.*)"$/, '$1')
Unquoted(t) ==
    IF Len(t) >= 2 /\ t[1] = Quote /\ t[Len(t)] = Quote
    THEN SubSeq(t, 2, Len(t) - 1) ELSE t

\* value?.trim()?.replace(/^"(.*)"$/, '$1') || ''
cleanString(value) ==
    IF value = Absent THEN <<>> ELSE Unquoted(TrimEnd(TrimStart(value[1])))

\* The cells a column can hold, and the rows of results.data built from them;
\* Ad ID, Day, Placement and Platform are all present or all absent.
CsvCells ==
    { Absent, Some(<<Blank, Quote, Quote, Blank>>), Some(<<Blank, "x", Blank>>) }

CsvRows ==
    [campaignName : CsvCells, adName : CsvCells, campaignId : CsvCells,
     adId : {Absent, Some(<<"a">>)}]

\* The record the map callback builds of a row.
RecordOf(row) ==
    [campaignName |-> cleanString(row.campaignName),
     adName |-> cleanString(row.adName),
     campaignId |-> cleanString(row.campaignId),
     adId |-> cleanString(row.adId), day |-> cleanString(row.adId),
     placement |-> cleanString(row.adId), platform |-> cleanString(row.adId)]

\* (mutant) a row needs its natural key as well.
ValidWithKey(row) ==
    /\ row.campaignName # <<>> /\ row.adName # <<>> /\ row.campaignId # <<>>
    /\ row.adId # <<>> /\ row.day # <<>>
    /\ row.placement # <<>> /\ row.platform # <<>>

\* row.campaignName && row.adName && row.campaignId
Valid(row) ==
    row.campaignName # <<>> /\ row.adName # <<>> /\ row.campaignId # <<>>

\* The list the promise resolves with.
parseAdPerformanceCSV(rows) ==
    SelectSeq([i \in 1..Len(rows) |-> RecordOf(rows[i])], Valid)

\* Papa.parse completes and the promise resolves.
ParseComplete ==
    /\ parsed = <<>>
    /\ parsed' = <<parseAdPerformanceCSV(csvRows)>>
    /\ UNCHANGED csvRows
    /\ UNCHANGED <<gatewayVars, viewVars, navVars, homeVars>>

InitParse ==
    /\ csvRows \in SeqsUpTo(CsvRows, MaxParse)
    /\ parsed = <<>>
    /\ InitStore
    /\ InitSaveIdle /\ InitTwiceIdle /\ InitUpIdle /\ InitReadIdle /\ InitLookupIdle
    /\ InitViewIdle
    /\ InitNavIdle /\ InitHomeIdle

NextParse == ParseComplete

SpecParse == InitParse /\ [][NextParse]_vars

---------------------------------------------------------------------------
(* handleSort *)

\* Most calls of handleSort in one behaviour.
MaxClicks == 8

\* The columns a header can name.
SortColumns == {"spend", "results", "roas", "ctr"}

\* (mutant) every call sorts descending.
DirectionAlwaysDesc(prev, column) == "desc"

\* prev.column === column && prev.direction === 'desc' ? 'asc' : 'desc'
Direction(prev, column) ==
    IF prev.column = column /\ prev.direction = "desc" THEN "asc" ELSE "desc"

\* A click on the header of `column`.
HandleSort(column) ==
    /\ clicks < MaxClicks
    /\ sortConfig' = [column |-> column,
                      direction |-> Direction(sortConfig, column)]
    /\ clicks' = clicks + 1
    /\ clicked' = column
    /\ streak' = IF column # sortConfig.column THEN 1
                 ELSE IF streak = 0 THEN 0 ELSE streak + 1
    /\ UNCHANGED <<sortInput, sorted>>
    /\ UNCHANGED <<aggVars, levelVars, filterVars, gatewayVars, extraVars>>

InitClick ==
    /\ InitSortIdle /\ InitClickIdle
    /\ InitAggIdle /\ InitLevelIdle /\ InitFilterIdle
    /\ InitStore
    /\ InitSaveIdle /\ InitTwiceIdle /\ InitUpIdle /\ InitReadIdle /\ InitLookupIdle
    /\ InitExtraIdle

NextClick == \E column \in SortColumns : HandleSort(column)

SpecClick == InitClick /\ [][NextClick]_vars

---------------------------------------------------------------------------
(* filterData *)

\* Longest list handed to filterData.
MaxFilter == 2

\* The items filterData is given: raw rows carry a day (which may be empty),
\* amountSpent and purchaseRoas; summaries carry totalSpend and avgRoas and no
\* day.
FilterRow(d, spend, roas) ==
    [day |-> Some(d), totalSpend |-> Absent, amountSpent |-> Some(spend),
     avgRoas |-> Absent, purchaseRoas |-> Some(roas)]

FilterSummary(spend, roas) ==
    [day |-> Absent, totalSpend |-> Some(spend), amountSpent |-> Absent,
     avgRoas |-> Some(roas), purchaseRoas |-> Absent]

FilterItems ==
    { FilterRow(d, m[1], m[2]) :
        d \in Range(Days) \cup {""}, m \in { <<0, 0>>, <<2, 1>>, <<2, 2>> } }
    \cup { FilterSummary(m[1], m[2]) : m \in { <<0, 0>>, <<2, 1>> } }

\* FilterConfig: every bound is a value or null.
FilterConfigs ==
    [spendMin : {Absent, Some(2)}, roasMin : {Absent, Some(1)},
     roasMax : {Absent, Some(1)},
     dateStart : {"null"} \cup Range(Days), dateEnd : {"null"} \cup Range(Days)]

\* (mutant) an item without a day passes the date bounds.
KeepsWithoutDay(item, config) ==
    LET spend == OrElse(item.totalSpend, item.amountSpent)
        roas == OrElse(item.avgRoas, item.purchaseRoas)
        dated == item.day # Absent /\ item.day[1] # ""
    IN  /\ (dated /\ config.dateStart # "null")
            => ~(DayRank(item.day[1]) < DayRank(config.dateStart))
        /\ (dated /\ config.dateEnd # "null")
            => ~(DayRank(item.day[1]) > DayRank(config.dateEnd))
        /\ ~(config.spendMin # Absent /\ spend < config.spendMin[1])
        /\ ~(config.roasMin # Absent /\ roas < config.roasMin[1])
        /\ ~(config.roasMax # Absent /\ roas > config.roasMax[1])

\* The callback of data.filter: FALSE at the first test that fails.
Keeps(item, config) ==
    LET spend == OrElse(item.totalSpend, item.amountSpent)
        roas == OrElse(item.avgRoas, item.purchaseRoas)
        noDate == item.day = Absent \/ item.day[1] = ""
    IN  IF (config.dateStart # "null" \/ config.dateEnd # "null") /\ noDate
        THEN FALSE
        ELSE IF config.dateStart # "null"
                /\ DayRank(item.day[1]) < DayRank(config.dateStart)
        THEN FALSE
        ELSE IF config.dateEnd # "null"
                /\ DayRank(item.day[1]) > DayRank(config.dateEnd)
        THEN FALSE
        ELSE IF config.spendMin # Absent /\ spend < config.spendMin[1]
        THEN FALSE
        ELSE IF config.roasMin # Absent /\ roas < config.roasMin[1]
        THEN FALSE
        ELSE IF config.roasMax # Absent /\ roas > config.roasMax[1]
        THEN FALSE
        ELSE TRUE

\* data.filter(item => ...)
filterData(list, config) == SelectSeq(list, LAMBDA item : Keeps(item, config))

\* A list goes through filterData.
FilterData ==
    /\ filtered = <<>>
    /\ filtered' = <<filterData(filterInput, filterConfig)>>
    /\ UNCHANGED <<filterInput, filterConfig>>
    /\ UNCHANGED <<aggVars, sortVars, levelVars, clickVars, gatewayVars, extraVars>>

InitFilter ==
    /\ filterInput \in SeqsUpTo(FilterItems, MaxFilter)
    /\ filterConfig \in FilterConfigs
    /\ filtered = <<>>
    /\ InitAggIdle /\ InitSortIdle /\ InitLevelIdle /\ InitClickIdle
    /\ InitStore
    /\ InitSaveIdle /\ InitTwiceIdle /\ InitUpIdle /\ InitReadIdle /\ InitLookupIdle
    /\ InitExtraIdle

NextFilter == FilterData

SpecFilter == InitFilter /\ [][NextFilter]_vars

---------------------------------------------------------------------------
(* The dashboard's navigation *)

\* Longest row list the dashboard is given when it is navigated.
MaxNav == 2

\* The rows the navigated dashboard is made of: campaign c1 with ad set s1 and
\* with rows whose "Ad set ID" cell was empty, and campaign c2 with ad set s2.
NavRows ==
    LET m == [amountSpent |-> 1, purchaseRoas |-> 3, ctrAll |-> 2,
              results |-> 1, impressions |-> 20, reach |-> 10]
    IN  { AggRow(<<"c1", "A">>, <<"s1", "X", "a1">>, m),
          AggRow(<<"c1", "A">>, <<"", "X", "a2">>, m),
          AggRow(<<"c2", "A">>, <<"s2", "X", "a2">>, m) }

\* A string | null used as a condition: null and '' count as false.
IsSet(v) == v # "null" /\ v # ""

\* The filteredAdSets memo: the ad sets of the selected campaign, or all.
FilteredAdSets ==
    IF ~IsSet(selectedCampaign) THEN adSets[1]
    ELSE SelectSeq(adSets[1], LAMBDA adSet : adSet.campaignId = selectedCampaign)

\* The breadcrumb bar, which holds the All Campaigns and Back buttons, is
\* rendered.
BreadcrumbShown == IsSet(selectedCampaign) \/ IsSet(selectedAdSet)

\* A row of the campaigns table is clicked.
HandleCampaignClick(campaignId) ==
    /\ activeTab = "campaigns"
    /\ \E i \in 1..Len(campaigns[1]) : campaigns[1][i].campaignId = campaignId
    /\ selectedCampaign' = campaignId
    /\ selectedAdSet' = "null"
    /\ activeTab' = "adsets"
    /\ UNCHANGED <<dailyData, filteredAds, aggregatedAds>>
    /\ UNCHANGED <<aggVars, sortVars, filterVars, clickVars, gatewayVars,
                   parseVars, homeVars>>

\* A row of the ad sets table is clicked.
HandleAdSetClick(adSetId) ==
    /\ activeTab = "adsets"
    /\ \E i \in 1..Len(FilteredAdSets) : FilteredAdSets[i].adSetId = adSetId
    /\ selectedAdSet' = adSetId
    /\ activeTab' = "ads"
    /\ UNCHANGED <<selectedCampaign, dailyData, filteredAds, aggregatedAds>>
    /\ UNCHANGED <<aggVars, sortVars, filterVars, clickVars, gatewayVars,
                   parseVars, homeVars>>

\* The campaign's name in the breadcrumb, or Back, is clicked.
HandleBackClick ==
    /\ BreadcrumbShown
    /\ IF IsSet(selectedAdSet)
       THEN /\ selectedAdSet' = "null"
            /\ activeTab' = "adsets"
            /\ UNCHANGED selectedCampaign
       ELSE IF IsSet(selectedCampaign)
       THEN /\ selectedCampaign' = "null"
            /\ activeTab' = "campaigns"
            /\ UNCHANGED selectedAdSet
       ELSE UNCHANGED <<selectedCampaign, selectedAdSet, activeTab>>
    /\ UNCHANGED <<dailyData, filteredAds, aggregatedAds>>
    /\ UNCHANGED <<aggVars, sortVars, filterVars, clickVars, gatewayVars,
                   parseVars, homeVars>>

\* All Campaigns in the breadcrumb is clicked.
ResetFilters ==
    /\ BreadcrumbShown
    /\ selectedCampaign' = "null"
    /\ selectedAdSet' = "null"
    /\ activeTab' = "overview"
    /\ UNCHANGED <<dailyData, filteredAds, aggregatedAds>>
    /\ UNCHANGED <<aggVars, sortVars, filterVars, clickVars, gatewayVars,
                   parseVars, homeVars>>

Tabs == {"overview", "daily", "campaigns", "adsets", "ads"}

\* A tab of the tab bar is clicked.
TabClick(key) ==
    /\ activeTab' = key
    /\ IF key = "adsets"
       THEN selectedAdSet' = "null" /\ UNCHANGED selectedCampaign
       ELSE IF key = "campaigns" \/ key = "overview"
       THEN selectedCampaign' = "null" /\ selectedAdSet' = "null"
       ELSE UNCHANGED <<selectedCampaign, selectedAdSet>>
    /\ UNCHANGED <<dailyData, filteredAds, aggregatedAds>>
    /\ UNCHANGED <<aggVars, sortVars, filterVars, clickVars, gatewayVars,
                   parseVars, homeVars>>

InitNav ==
    /\ aggInput \in SeqsUpTo(NavRows, MaxNav)
    /\ given = aggInput
    /\ campaigns = <<aggregateByCampaign(aggInput)>>
    /\ adSets = <<aggregateByAdSet(aggInput)>>
    /\ InitSortIdle /\ InitDashIdle
    /\ InitNavIdle
    /\ InitStore
    /\ InitSaveIdle /\ InitTwiceIdle /\ InitUpIdle /\ InitReadIdle /\ InitLookupIdle
    /\ InitParseIdle /\ InitHomeIdle

NextNav ==
    \/ \E c \in {"c1", "c2"} : HandleCampaignClick(c)
    \/ \E a \in {"", "s1", "s2"} : HandleAdSetClick(a)
    \/ HandleBackClick
    \/ ResetFilters
    \/ \E key \in Tabs : TabClick(key)

SpecNav == InitNav /\ [][NextNav]_vars

---------------------------------------------------------------------------
(* The Home page: loads from the database *)

\* Most calls of handleDatabaseLoad in one behaviour.
MaxLoads == 3

\* The stores a load reads: empty, or one row on each of the two days.
HomeTables == { <<>>, <<StoredRow(1), StoredRow(2)>> }

\* The dateFilters a caller passes; '' stands for undefined.
DateFilters ==
    { [startDate |-> "", endDate |-> ""],
      [startDate |-> Days[1], endDate |-> Days[1]],
      [startDate |-> Days[2], endDate |-> Days[2]],
      [startDate |-> Days[2], endDate |-> Days[1]] }

\* The options handleDatabaseLoad reads with: the last 14 days when neither
\* date is given (the two days of the model both fall within them).
LoadOptions(dateFilters) ==
    IF dateFilters.startDate = "" /\ dateFilters.endDate = ""
    THEN [startDate |-> Days[1], endDate |-> Days[2], campaignIds |-> <<>>]
    ELSE [startDate |-> dateFilters.startDate, endDate |-> dateFilters.endDate,
          campaignIds |-> <<>>]

NoDataMessage == "No data found in database. Upload some CSV data first."
LoadFailedMessage == "Failed to load from database: " \o StoreMessage

\* A call of handleDatabaseLoad is still awaiting getAdPerformanceData.
InFlight == \E i \in 1..Len(loads) : loads[i].pc = "await"

\* handleDatabaseLoad(dateFilters) up to its await.
HandleDatabaseLoad(dateFilters) ==
    /\ Len(loads) < MaxLoads
    /\ isLoadingFromDB' = TRUE
    /\ error' = "null"
    /\ loads' = Append(loads, [dateFilters |-> dateFilters, pc |-> "await",
                               overlaps |-> InFlight, threw |-> FALSE,
                               dbData |-> <<>>])
    /\ overridden' = FALSE
    /\ UNCHANGED adData
    /\ UNCHANGED <<gatewayVars, viewVars, parseVars, navVars>>

\* The header's Load from Database button: rendered while there is no data,
\* disabled while isLoadingFromDB.
HeaderLoad ==
    /\ adData = <<>>
    /\ ~isLoadingFromDB
    /\ HandleDatabaseLoad([startDate |-> "", endDate |-> ""])

\* The upload widget's Load from Database button: rendered while there is no
\* data, never disabled.
WidgetLoad(dateFilters) ==
    /\ adData = <<>>
    /\ HandleDatabaseLoad(dateFilters)

\* handleDateRangeChange(startDate, endDate), the callback the dashboard is
\* given.
HandleDateRangeChange(startDate, endDate) ==
    /\ adData # <<>>
    /\ HandleDatabaseLoad([startDate |-> startDate, endDate |-> endDate])

\* getAdPerformanceData answers call i, which runs to its end: the rows are
\* shown, or an error is, and the finally block clears the flag.
LoadRespond(i, o) ==
    /\ i \in 1..Len(loads)
    /\ loads[i].pc = "await"
    /\ \E dbData \in QueryRows(table, LoadOptions(loads[i].dateFilters)) :
         IF o # "ok"
         THEN /\ error' = LoadFailedMessage
              /\ loads' = [loads EXCEPT ![i].pc = "done", ![i].threw = TRUE]
              /\ UNCHANGED adData
         ELSE /\ loads' = [loads EXCEPT ![i].pc = "done", ![i].dbData = dbData]
              /\ IF Len(dbData) = 0
                 THEN error' = NoDataMessage /\ UNCHANGED adData
                 ELSE adData' = <<dbData>> /\ UNCHANGED error
    /\ isLoadingFromDB' = FALSE
    /\ UNCHANGED overridden
    /\ UNCHANGED <<gatewayVars, viewVars, parseVars, navVars>>

\* handleDataLoad(data): the upload widget hands over a parsed file.
HandleDataLoad(d) ==
    /\ adData' = <<d>>
    /\ error' = "null"
    /\ overridden' = TRUE
    /\ UNCHANGED <<isLoadingFromDB, loads>>
    /\ UNCHANGED <<gatewayVars, viewVars, parseVars, navVars>>

\* handleReset: Upload New Data is clicked.
HandleReset ==
    /\ adData # <<>>
    /\ adData' = <<>>
    /\ error' = "null"
    /\ overridden' = TRUE
    /\ UNCHANGED <<isLoadingFromDB, loads>>
    /\ UNCHANGED <<gatewayVars, viewVars, parseVars, navVars>>

InitHome ==
    /\ table \in HomeTables
    /\ InitSaveIdle /\ InitTwiceIdle /\ InitUpIdle /\ InitReadIdle /\ InitLookupIdle
    /\ InitViewIdle
    /\ InitParseIdle /\ InitNavIdle /\ InitHomeIdle

NextHome ==
    \/ HeaderLoad
    \/ \E f \in DateFilters : WidgetLoad(f)
    \/ \E f \in DateFilters : HandleDateRangeChange(f.startDate, f.endDate)
    \/ \E i \in 1..MaxLoads, o \in StoreOutcomes : LoadRespond(i, o)
    \/ HandleDataLoad(<<StoredRow(3)>>)
    \/ HandleReset

SpecHome == InitHome /\ [][NextHome]_vars

---------------------------------------------------------------------------
(* Claims: saveAdPerformanceData *)

\* C1: a batch of pairwise-distinct natural keys saved twice leaves the store
\* with the same rows (same count, same values per key) as saving it once;
\* saved twice into an empty store it leaves one row per record of the batch.
C1_IdempotentUpsert ==
    (repeated /\ savePc = "idle" /\ ~BatchConflicts(
        [i \in 1..Len(prevSave[1].batch) |->
            convertToSupabaseFormat(prevSave[1].batch[i])]))
    => /\ Len(table) = Len(prevSave[1].table)
       /\ Range(table) = Range(prevSave[1].table)
       /\ prevSave[1].before = <<>> => Len(table) = Len(prevSave[1].batch)

\* Three rows with three distinct keys went into an empty store twice, both
\* calls succeeded, and three rows are stored.
C1_Witness ==
    /\ repeated
    /\ savePc = "idle"
    /\ uploadResult # NoResult
    /\ uploadResult[1].success
    /\ prevSave[1].before = <<>>
    /\ Len(prevSave[1].batch) = 3
    /\ Len(table) = 3

---------------------------------------------------------------------------
(* Claims: getIncrementalData and the upload pipeline *)

\* getIncrementalData has returned to handleFile.
Returned == upPc \in {"save", "done"}

\* The natural keys stored in table t.
KeysOf(t) == { RowKey(t[i]) : i \in 1..Len(t) }

\* The stored row of table t with natural key k, as a set (empty: none).
RowsWithKey(t, k) == { t[i] : i \in { j \in 1..Len(t) : RowKey(t[j]) = k } }

\* The candidates of newData whose natural key is not in the key set K.
NotIn(newData, K) == SelectSeq(newData, LAMBDA item : RecKey(item) \notin K)

\* C4: given the keys K the key query returned, getIncrementalData returns
\* exactly the candidates whose 4-tuple key is not in K, in input order,
\* whatever characters the key fields contain.
C4_DedupCompleteness ==
    (Returned /\ keysAnswer = "ok")
    => incrementalData = NotIn(data, { RowKey(r) : r \in existingData })

\* C7: whatever was ingested, re-uploads, overlapping uploads and uploads
\* whose dedup lookup failed included, no two stored rows share a natural key.
C7_StoreUniqueness == UniqueKeys(table)

\* An upload whose key lookup failed sent a record whose key was already
\* stored, the upsert succeeded, and the key is still stored once.
C7_Witness ==
    /\ upPc = "done"
    /\ keysAnswer = "error"
    /\ uploadResult # NoResult
    /\ uploadResult[1].success
    /\ \E i \in 1..Len(data) : RecKey(data[i]) \in KeysOf(tableBefore)
    /\ Len(table) >= 2
    /\ UniqueKeys(table)

\* C8 as claimed: an upload that met no store failure and carried one record
\* for a key already stored with other values leaves that key's stored row
\* holding the uploaded values.
C8_LastWriteWins ==
    (upPc = "done" /\ countAnswer = "ok" /\ keysAnswer \in {"ok", "none"}
        /\ uploadResult # NoResult /\ uploadResult[1].success)
    => \A i \in 1..Len(data) :
         ( /\ RecKey(data[i]) \in KeysOf(tableBefore)
           /\ convertToSupabaseFormat(data[i]) \notin Range(tableBefore)
           /\ \A j \in 1..Len(data) : RecKey(data[j]) = RecKey(data[i]) => j = i )
         => RowsWithKey(table, RecKey(data[i])) = { convertToSupabaseFormat(data[i]) }

\* C8 amended: a record whose key the key query returned is skipped, and its
\* stored row keeps the values it had; a stored row changes during an upload
\* only to the values of a record that getIncrementalData let through and a
\* successful upsert wrote.
C8_ExistingSkipped ==
    upPc = "done"
    => /\ \A i \in 1..Len(data) :
            (keysAnswer = "ok" /\ KeyColumns(convertToSupabaseFormat(data[i]))
                                     \in existingData)
            => /\ data[i] \notin Range(incrementalData)
               /\ RowsWithKey(table, RecKey(data[i]))
                    = RowsWithKey(tableBefore, RecKey(data[i]))
       /\ \A k \in KeysOf(tableBefore) :
            RowsWithKey(table, k) # RowsWithKey(tableBefore, k)
            => /\ uploadResult # NoResult
               /\ uploadResult[1].success
               /\ \E i \in 1..Len(incrementalData) :
                    RowsWithKey(table, k)
                        = { convertToSupabaseFormat(incrementalData[i]) }

\* An upload carried other values for a stored key, the key query returned
\* the key, and the stored row still holds the earlier values.
C8_Witness ==
    /\ upPc = "done"
    /\ keysAnswer = "ok"
    /\ \E i \in 1..Len(data) :
         /\ KeyColumns(convertToSupabaseFormat(data[i])) \in existingData
         /\ convertToSupabaseFormat(data[i]) \notin Range(tableBefore)
         /\ RowsWithKey(table, RecKey(data[i]))
              = RowsWithKey(tableBefore, RecKey(data[i]))
         /\ RowsWithKey(table, RecKey(data[i])) # {}

\* C9: against the store as it is, of any size, and with both lookups
\* answered, getIncrementalData returns no candidate whose natural key is
\* stored and every candidate whose natural key is not.
C9_DedupAgainstStore ==
    (Returned /\ countAnswer = "ok" /\ keysAnswer \in {"ok", "none"})
    => incrementalData = NotIn(data, KeysOf(tableBefore))

\* C10: when the key query fails or a store call throws, getIncrementalData
\* still returns, with every candidate in input order; when the store counts
\* zero rows the key query is never issued and every candidate is returned.
C10_DedupFallback ==
    /\ (upPc # "idle" /\ (keysAnswer \in {"error", "throw"} \/ countAnswer = "throw"))
       => (Returned /\ ~giThrew /\ incrementalData = data)
    /\ (upPc # "idle" /\ countAnswer = "ok" /\ Len(tableBefore) = 0)
       => (Returned /\ ~giThrew /\ keysAnswer = "none" /\ incrementalData = data)

\* The key query failed against a store holding one of the candidates' keys,
\* and every candidate came back.
C10_Witness ==
    /\ upPc = "save"
    /\ keysAnswer = "error"
    /\ incrementalData = data
    /\ \E i \in 1..Len(data) : RecKey(data[i]) \in KeysOf(tableBefore)

---------------------------------------------------------------------------
(* Claims: getAdPerformanceData *)

\* The stored rows that match the options of the read in progress.
MatchingRows == { table[i] : i \in { j \in 1..Len(table) : Matches(table[j], rdOptions) } }

\* C3: over a store that does not change during the call, the read returns
\* exactly the matching records, each exactly once, however many pages they
\* fill.
C3_PaginationComplete ==
    rdPc = "returned"
    => /\ Len(rdResult) = Cardinality(MatchingRows)
       /\ \A row \in MatchingRows :
            Cardinality({ i \in 1..Len(rdResult) :
                            rdResult[i] = convertFromSupabaseFormat(row) }) = 1

---------------------------------------------------------------------------
(* Claims: aggregateByCampaign and aggregateByAdSet *)

\* The input rows whose sums went into a summary: those with its Map key.
CampaignRowsOf(c) == SelectSeq(aggInput, LAMBDA row : CampaignKey(row) = CampaignKey(c))
AdSetRowsOf(a) == SelectSeq(aggInput, LAMBDA row : AdSetKey(row) = AdSetKey(a))

\* avg * S = weighted sum for S > 0, avg = 0 for S = 0, for one summary and
\* the rows that were summed into its totalSpend.
WeightedAverageOf(summary, rows) ==
    IF summary.totalSpend > 0
    THEN /\ summary.avgRoas.num * summary.totalSpend
                = RoasWeighted(rows) * summary.avgRoas.den
         /\ summary.avgCtr.num * summary.totalSpend
                = CtrWeighted(rows) * summary.avgCtr.den
    ELSE summary.avgRoas.num = 0 /\ summary.avgCtr.num = 0

\* C2: in every campaign and ad-set summary with totalSpend S > 0, avgRoas * S
\* is the sum of purchaseRoas * amountSpent over exactly the rows summed into
\* S, and likewise avgCtr; with S = 0 both averages are 0.
C2_WeightedAverage ==
    /\ campaigns # <<>> =>
         \A i \in 1..Len(campaigns[1]) :
            WeightedAverageOf(campaigns[1][i], CampaignRowsOf(campaigns[1][i]))
    /\ adSets # <<>> =>
         \A i \in 1..Len(adSets[1]) :
            WeightedAverageOf(adSets[1][i], AdSetRowsOf(adSets[1][i]))

\* C5: adCount and adSetCount of a campaign summary are the numbers of
\* distinct adId and adSetId values among the input rows with its campaignId,
\* and adCount of an ad-set summary is the number of distinct adId values
\* among the rows with its adSetId, however many rows an ad has.
C5_DistinctCount ==
    /\ campaigns # <<>> =>
         \A i \in 1..Len(campaigns[1]) :
            LET c == campaigns[1][i]
                mine == { k \in 1..Len(aggInput) :
                            aggInput[k].campaignId = c.campaignId }
            IN  /\ c.adCount = Cardinality({ aggInput[k].adId : k \in mine })
                /\ c.adSetCount = Cardinality({ aggInput[k].adSetId : k \in mine })
    /\ adSets # <<>> =>
         \A i \in 1..Len(adSets[1]) :
            LET a == adSets[1][i]
                mine == { k \in 1..Len(aggInput) : aggInput[k].adSetId = a.adSetId }
            IN  a.adCount = Cardinality({ aggInput[k].adId : k \in mine })

\* A campaign whose rows outnumber its ads has been summarised.
C5_Witness ==
    /\ campaigns # <<>>
    /\ adSets # <<>>
    /\ \E i \in 1..Len(campaigns[1]) :
         /\ campaigns[1][i].adCount = 1
         /\ Cardinality({ k \in 1..Len(aggInput) :
                aggInput[k].campaignId = campaigns[1][i].campaignId }) > 1

\* The plain sums of the input rows at the positions `mine`.
PlainSums(summary, mine) ==
    /\ summary.totalSpend = SumSeq([k \in 1..Len(mine) |-> aggInput[mine[k]].amountSpent])
    /\ summary.totalResults = SumSeq([k \in 1..Len(mine) |-> aggInput[mine[k]].results])
    /\ summary.totalImpressions
          = SumSeq([k \in 1..Len(mine) |-> aggInput[mine[k]].impressions])
    /\ summary.totalReach = SumSeq([k \in 1..Len(mine) |-> aggInput[mine[k]].reach])

\* The positions of the input rows of one campaignId / adSetId, in input order.
CampaignPositions(id) ==
    SelectSeq([k \in 1..Len(aggInput) |-> k], LAMBDA k : aggInput[k].campaignId = id)
AdSetPositions(id) ==
    SelectSeq([k \in 1..Len(aggInput) |-> k], LAMBDA k : aggInput[k].adSetId = id)

\* C13: aggregateByCampaign returns one summary per distinct campaignId of the
\* input, holding the plain sums over all rows with that campaignId, and
\* aggregateByAdSet one summary per distinct adSetId, likewise.
C13_PartitionById ==
    /\ campaigns # <<>> =>
         LET out == campaigns[1]
         IN  /\ Len(out) = Cardinality({ aggInput[k].campaignId : k \in 1..Len(aggInput) })
             /\ \A k \in 1..Len(aggInput) :
                    \E i \in 1..Len(out) : out[i].campaignId = aggInput[k].campaignId
             /\ \A i \in 1..Len(out) :
                    PlainSums(out[i], CampaignPositions(out[i].campaignId))
    /\ adSets # <<>> =>
         LET out == adSets[1]
         IN  /\ Len(out) = Cardinality({ aggInput[k].adSetId : k \in 1..Len(aggInput) })
             /\ \A k \in 1..Len(aggInput) :
                    \E i \in 1..Len(out) : out[i].adSetId = aggInput[k].adSetId
             /\ \A i \in 1..Len(out) :
                    PlainSums(out[i], AdSetPositions(out[i].adSetId))

---------------------------------------------------------------------------
(* Claims: the aggregation levels of the dashboard *)

\* The rows of the input with a given campaignId, adSetId or day, and the
\* rows with spend of a given ad among those of the selection.
RowsOfCampaign(id) == SelectSeq(aggInput, LAMBDA row : row.campaignId = id)
RowsOfAdSet(id) == SelectSeq(aggInput, LAMBDA row : row.adSetId = id)
RowsOfDay(d) == SelectSeq(aggInput, LAMBDA row : row.day = d)
SelectedRows ==
    IF selectedAdSet # "null" THEN RowsOfAdSet(selectedAdSet)
    ELSE IF selectedCampaign # "null" THEN RowsOfCampaign(selectedCampaign)
    ELSE aggInput
SpendRowsOfAd(id) ==
    SelectSeq(SelectedRows, LAMBDA row : row.adId = id /\ row.amountSpent > 0)

\* The averages avgRoas and avgCtr of a group with spend S over `rows` are
\* numbers, and are the weighted averages with every NaN ratio taken as 0.
GuardedAverages(avgRoas, avgCtr, S, rows) ==
    /\ avgRoas.num # NaN
    /\ avgCtr.num # NaN
    /\ S > 0 => /\ avgRoas.num * S = RoasWeighted(rows) * avgRoas.den
                /\ avgCtr.num * S = CtrWeighted(rows) * avgCtr.den

Least(S) == CHOOSE x \in S : \A y \in S : x <= y

\* The position in `rows` of the first row of a campaign group, of an ad-set
\* group and of an ad.
FirstOfCampaign(rows, c) ==
    Least({ k \in 1..Len(rows) : CampaignKey(rows[k]) = CampaignKey(c) })
FirstOfAdSet(rows, a) ==
    Least({ k \in 1..Len(rows) : AdSetKey(rows[k]) = AdSetKey(a) })
FirstRowOfAd(rows, id) == Least({ k \in 1..Len(rows) : rows[k].adId = id })

\* A list is in non-increasing totalSpend order.
SpendDescending(list) ==
    \A i, j \in 1..Len(list) : i < j => list[i].totalSpend >= list[j].totalSpend

\* C15 as claimed: at every level the list is in non-increasing totalSpend
\* order, groups of equal totalSpend in the order of their first rows.
C15_SpendDescEverywhere ==
    /\ campaigns # <<>> => SpendDescending(campaigns[1])
    /\ adSets # <<>> => SpendDescending(adSets[1])
    /\ dailyData # <<>> => SpendDescending(dailyData[1])
    /\ aggregatedAds # <<>> => SpendDescending(aggregatedAds[1])

\* C15 amended: the campaign and ad-set lists are in non-increasing totalSpend
\* order, groups of equal totalSpend in the order of their first rows; the
\* day list is in descending day order; the merged ads are in the order of
\* their first rows with spend.
C15_LevelOrdering ==
    /\ campaigns # <<>> =>
         LET out == campaigns[1]
         IN  /\ SpendDescending(out)
             /\ \A i, j \in 1..Len(out) :
                    (i < j /\ out[i].totalSpend = out[j].totalSpend)
                    => FirstOfCampaign(aggInput, out[i]) < FirstOfCampaign(aggInput, out[j])
    /\ adSets # <<>> =>
         LET out == adSets[1]
         IN  /\ SpendDescending(out)
             /\ \A i, j \in 1..Len(out) :
                    (i < j /\ out[i].totalSpend = out[j].totalSpend)
                    => FirstOfAdSet(aggInput, out[i]) < FirstOfAdSet(aggInput, out[j])
    /\ dailyData # <<>> =>
         \A i, j \in 1..Len(dailyData[1]) :
            i < j => DayRank(dailyData[1][i].day) > DayRank(dailyData[1][j].day)
    /\ aggregatedAds # <<>> =>
         \A i, j \in 1..Len(aggregatedAds[1]) :
            i < j => FirstRowOfAd(filteredAds[1], aggregatedAds[1][i].adId)
                        < FirstRowOfAd(filteredAds[1], aggregatedAds[1][j].adId)

\* A render whose campaign list was reordered by spend while its merged ads
\* stayed in input order, the smaller spend first.
C15_Witness ==
    /\ aggregatedAds # <<>>
    /\ Len(aggregatedAds[1]) = 2
    /\ aggregatedAds[1][1].totalSpend < aggregatedAds[1][2].totalSpend
    /\ Len(campaigns[1]) = 2
    /\ campaigns[1][1].campaignId # aggInput[1].campaignId
    /\ campaigns[1][1].totalSpend > campaigns[1][2].totalSpend

\* The rank the status resolution is said to follow.
StatusRank(status) ==
    IF status = "active" THEN 4
    ELSE IF status = "not_delivering" THEN 3
    ELSE IF status = "inactive" THEN 2
    ELSE IF status = "archived" THEN 1
    ELSE 0

\* filteredAds in the order p.
Reordered(p) == [i \in 1..Len(filteredAds[1]) |-> filteredAds[1][p[i]]]

C19_ZeroSpendExcluded ==
    aggregatedAds # <<>>
    => LET merged == aggregatedAds[1]
       IN  /\ \A i \in 1..Len(SelectedRows) :
                (\E k \in 1..Len(merged) : merged[k].adId = SelectedRows[i].adId)
                <=> SpendRowsOfAd(SelectedRows[i].adId) # <<>>
           /\ \A k \in 1..Len(merged) :
                LET rows == SpendRowsOfAd(merged[k].adId)
                IN  /\ rows # <<>>
                    /\ \A j \in 1..Len(merged) :
                            merged[j].adId = merged[k].adId => j = k
                    /\ merged[k].totalSpend
                         = SumSeq([i \in 1..Len(rows) |-> rows[i].amountSpent])
                    /\ merged[k].totalResults
                         = SumSeq([i \in 1..Len(rows) |-> rows[i].results])
                    /\ merged[k].totalImpressions
                         = SumSeq([i \in 1..Len(rows) |-> rows[i].impressions])
                    /\ merged[k].totalReach
                         = SumSeq([i \in 1..Len(rows) |-> rows[i].reach])
                    /\ Range(merged[k].placements)
                         = { rows[i].placement : i \in 1..Len(rows) }
                    /\ Len(merged[k].placements)
                         = Cardinality(Range(merged[k].placements))
                    /\ Range(merged[k].platforms)
                         = { rows[i].platform : i \in 1..Len(rows) }
                    /\ Len(merged[k].platforms)
                         = Cardinality(Range(merged[k].platforms))

\* Ad a1 has spend on feed only and a row without spend on story, and ad a2
\* has no spend at all: a1 is the only merged ad and its placement is feed.
C19_Witness ==
    /\ aggregatedAds # <<>>
    /\ Len(aggInput) = 3
    /\ aggInput[1].adId = "a1" /\ aggInput[1].placement = "feed"
    /\ aggInput[1].amountSpent = 100
    /\ aggInput[2].adId = "a1" /\ aggInput[2].placement = "story"
    /\ aggInput[2].amountSpent = 0
    /\ aggInput[3].adId = "a2" /\ aggInput[3].amountSpent = 0
    /\ selectedCampaign = "null"
    /\ Len(aggregatedAds[1]) = 1
    /\ aggregatedAds[1][1].placements = <<"feed">>
    /\ aggregatedAds[1][1].totalImpressions = 10

\* The ratios of the rows are numbers.
Numeric(rows) ==
    \A i \in 1..Len(rows) : rows[i].purchaseRoas # NaN /\ rows[i].ctrAll # NaN

\* C20: a merged ad whose rows with spend have numeric ratios has totalSpend
\* and amountSpent equal to the sum of their amountSpent, and purchaseRoas
\* (ctrAll) times totalSpend equal to the sum of their purchaseRoas (ctrAll)
\* times amountSpent, in whatever order the rows came.
C20_WeightedAverage ==
    aggregatedAds # <<>>
    => \A k \in 1..Len(aggregatedAds[1]) :
         LET merged == aggregatedAds[1][k]
             rows == SpendRowsOfAd(merged.adId)
         IN  Numeric(rows)
             => /\ merged.totalSpend
                     = SumSeq([i \in 1..Len(rows) |-> rows[i].amountSpent])
                /\ merged.amountSpent = merged.totalSpend
                /\ merged.purchaseRoas.num * merged.totalSpend
                     = merged.purchaseRoas.den
                         * SumSeq([i \in 1..Len(rows) |->
                                     rows[i].purchaseRoas * rows[i].amountSpent])
                /\ merged.ctrAll.num * merged.totalSpend
                     = merged.ctrAll.den
                         * SumSeq([i \in 1..Len(rows) |->
                                     rows[i].ctrAll * rows[i].amountSpent])

\* Spends 100, 50, 0 with ROAS 2, 4, 0 on one ad: totalSpend 150, ROAS 400/150.
C20_Witness ==
    /\ aggregatedAds # <<>>
    /\ Len(aggInput) = 3
    /\ \A i \in 1..3 : aggInput[i].adId = "a1"
    /\ aggInput[1].amountSpent = 100 /\ aggInput[1].purchaseRoas = 2
    /\ aggInput[2].amountSpent = 50 /\ aggInput[2].purchaseRoas = 4
    /\ aggInput[3].amountSpent = 0
    /\ Len(aggregatedAds[1]) = 1
    /\ aggregatedAds[1][1].totalSpend = 150
    /\ aggregatedAds[1][1].purchaseRoas.num * 150
         = 400 * aggregatedAds[1][1].purchaseRoas.den

---------------------------------------------------------------------------
(* Claims: parseAdPerformanceCSV *)

\* The positions of the rows whose three required cells are not empty once
\* cleaned, in input order.
AcceptedRows ==
    SelectSeq([i \in 1..Len(csvRows) |-> i],
              LAMBDA i : /\ cleanString(csvRows[i].campaignName) # <<>>
                         /\ cleanString(csvRows[i].adName) # <<>>
                         /\ cleanString(csvRows[i].campaignId) # <<>>)

\* C21: the parse resolves with the records of exactly the rows whose cleaned
\* campaignName, adName and campaignId are not empty, in input order; the
\* other rows are dropped, and an empty adId, day, placement or platform
\* does not drop a row.
C21_RowRejection ==
    parsed # <<>>
    => /\ Len(parsed[1]) = Len(AcceptedRows)
       /\ \A k \in 1..Len(AcceptedRows) :
            parsed[1][k] = RecordOf(csvRows[AcceptedRows[k]])

\* A row without a campaign ID was dropped and the row after it, which has no
\* natural key, was kept.
C21_Witness ==
    /\ parsed # <<>>
    /\ Len(csvRows) = 2
    /\ csvRows[1].campaignId = Absent
    /\ csvRows[2].adId = Absent
    /\ Len(parsed[1]) = 1
    /\ parsed[1][1].adId = <<>>
    /\ parsed[1][1].campaignName = <<"x">>

---------------------------------------------------------------------------
(* Claims: handleSort *)

Flipped(direction) == IF direction = "desc" THEN "asc" ELSE "desc"

\* What one call of handleSort did to sortConfig.
ToggleStep ==
    clicks' = clicks + 1
    => IF clicked' # sortConfig.column
       THEN sortConfig' = [column |-> clicked', direction |-> "desc"]
       ELSE sortConfig' = [column |-> sortConfig.column,
                           direction |-> Flipped(sortConfig.direction)]

\* C17: the sort starts as (spend, desc); a call naming another column makes
\* it (that column, desc), a call naming the current column flips the
\* direction; so after k calls in a row naming a column the first of them made
\* current, the direction is desc exactly when k is odd.
C17_SortToggle ==
    /\ sortConfig = [column |-> "spend", direction |-> "desc"]
    /\ [][ToggleStep]_vars
    /\ [](streak >= 1 => (sortConfig.direction = "desc" <=> streak % 2 = 1))

\* A column other than the first one was named three times in a row, then a
\* fourth time.
C17_Witness ==
    /\ clicked = "roas" /\ streak = 4
    /\ sortConfig = [column |-> "roas", direction |-> "asc"]

---------------------------------------------------------------------------
(* Claims: filterData *)

\* Every active bound of the config holds for the item.
BoundsHold(item, config) ==
    LET spend == OrElse(item.totalSpend, item.amountSpent)
        roas == OrElse(item.avgRoas, item.purchaseRoas)
        hasDay == item.day # Absent /\ item.day[1] # ""
    IN  /\ config.dateStart # "null"
            => (hasDay /\ DayRank(item.day[1]) >= DayRank(config.dateStart))
        /\ config.dateEnd # "null"
            => (hasDay /\ DayRank(item.day[1]) <= DayRank(config.dateEnd))
        /\ config.spendMin # Absent => spend >= config.spendMin[1]
        /\ config.roasMin # Absent => roas >= config.roasMin[1]
        /\ config.roasMax # Absent => roas <= config.roasMax[1]

---------------------------------------------------------------------------
(* Claims: sortData *)

IsActive(item) == item.deliveryStatus = "active"

\* C6: whatever the column and the direction, the sorted list holds the items
\* of the input, every active item before every item that is not active, and
\* within the active and within the other items the column's values run in
\* the requested direction.
C6_ActiveFirst ==
    sorted # <<>> =>
      LET out == sorted[1]
      IN  /\ Len(out) = Len(sortInput)
          /\ \A x \in Range(sortInput) :
                Cardinality({ i \in 1..Len(out) : out[i] = x })
                    = Cardinality({ i \in 1..Len(sortInput) : sortInput[i] = x })
          /\ \A i, j \in 1..Len(out) :
                i < j => ~(~IsActive(out[i]) /\ IsActive(out[j]))
          /\ \A i, j \in 1..Len(out) :
                (i < j /\ IsActive(out[i]) = IsActive(out[j])
                       /\ sortConfig.column # "null")
                => IF sortConfig.direction = "desc"
                   THEN SortValue(out[i], sortConfig.column)
                            >= SortValue(out[j], sortConfig.column)
                   ELSE SortValue(out[i], sortConfig.column)
                            <= SortValue(out[j], sortConfig.column)

\* A descending sort by spend has put an active item before an item with a
\* larger spend that is not active, and the input had them the other way round.
C6_Witness ==
    /\ sorted # <<>>
    /\ sortConfig = [column |-> "spend", direction |-> "desc"]
    /\ Len(sortInput) = 3
    /\ ~IsActive(sortInput[1])
    /\ IsActive(sortInput[3])
    /\ SortValue(sortInput[1], "spend") > SortValue(sortInput[3], "spend")
    /\ sorted[1][1] = sortInput[3]

---------------------------------------------------------------------------
(* Claims: store failures *)

\* C12: when the upsert of saveAdPerformanceData is rejected, the call returns
\* success false, inserted 0 and one error entry holding the store's message,
\* and the store holds what it held before the call; and in every UploadResult
\* success is false exactly when errors is not empty.
C12_AtomicFailure ==
    [][ /\ uploadResult' # NoResult
           => (~uploadResult'[1].success <=> uploadResult'[1].errors # <<>>)
        /\ (savePc = "await" /\ savePc' = "idle" /\ ~uploadResult'[1].success)
           => /\ table' = table
              /\ uploadResult'[1].inserted = 0
              /\ uploadResult'[1].errors
                    \in { <<"Database error: " \o StoreMessage>>,
                          <<"Unexpected error: " \o StoreMessage>> } ]_vars

\* A batch was rejected by a store that already held rows.
C12_Witness ==
    /\ savePc = "idle"
    /\ uploadResult # NoResult
    /\ ~uploadResult[1].success
    /\ uploadResult[1].errors = <<"Database error: " \o StoreMessage>>
    /\ Len(table) >= 2

\* What a call that met no failure gives back over an empty store.
OverEmptyStore(op) ==
    IF op = "dates" THEN Gave(<<>>) ELSE Gave(SummaryOnException)

\* C11: when a store call of getAvailableDates or getDatabaseSummary fails
\* over a store that holds rows, what the caller receives carries the
\* failure: it is an exception, or at least differs from what a call without
\* failure gives over an empty store.
C11_ErrorsSurface ==
    (lkPc = "returned" /\ lkFailed /\ table # <<>>)
    => (lkResult[1].threw \/ lkResult # OverEmptyStore(lkOp))

\* The summary of the whole table.
WholeStoreSummary ==
    [totalRecords |-> Len(table),
     dateRange |-> IF table = <<>> THEN <<>>
                   ELSE <<[start |-> FirstDay(table, TRUE)[1],
                           end |-> FirstDay(table, FALSE)[1]]>>,
     campaignCount |-> Cardinality({ table[i].campaign_id : i \in 1..Len(table) }),
     adSetCount |-> Cardinality({ table[i].ad_set_id : i \in 1..Len(table) }),
     adCount |-> Cardinality({ table[i].ad_id : i \in 1..Len(table) })]

\* C22: when every query of getDatabaseSummary was answered without error,
\* it returns the number of stored rows, the numbers of distinct campaign,
\* ad-set and ad ids over all stored rows and the least and greatest stored
\* day (null for an empty store), whatever the size of the store.
C22_WholeStoreSummary ==
    (lkOp = "summary" /\ lkPc = "returned" /\ ~lkFailed)
    => lkResult = Gave(WholeStoreSummary)

\* A step of handleFile that calls saveAdPerformanceData.
SaveStarts == savePc = "idle" /\ savePc' = "await"

\* What a step of an upload may do to the hand-off and to the save.
UploadStep ==
    /\ (upPc # "idle" /\ upPc' # "idle") => loaded' = loaded
    /\ SaveStarts => /\ upPc \in {"count", "keys"}
                     /\ ~giThrew'
                     /\ saveArg' = incrementalData'
                     /\ incrementalData' # <<>>
    /\ (upPc' = "done" /\ incrementalData' = <<>>) => ~SaveStarts

\* C23: while an upload is under way the dashboard holds all parsed records,
\* handed over before the first store call and left alone whatever the store
\* answers; saveAdPerformanceData is called at most once, in the step in which
\* getIncrementalData returns, with the list it returned, and not when that
\* list is empty.
C23_UploadOrdering ==
    /\ [](upPc # "idle" => (data # <<>> /\ loaded = <<data>>))
    /\ [](saveCalls <= 1)
    /\ [][UploadStep]_vars

\* The upsert of an upload was rejected; the dashboard still holds the records.
C23_Witness ==
    /\ upPc = "done"
    /\ saveCalls = 1
    /\ uploadResult # NoResult
    /\ ~uploadResult[1].success
    /\ loaded = <<data>>
    /\ Len(data) = 2

MatchingCount ==
    Cardinality({ i \in 1..Len(table) : Matches(table[i], rdOptions) })

\* A step of the read issues a page request only on receiving a full page.
RequestStep ==
    (rdPc = "page" /\ Len(rdAsked') > Len(rdAsked))
    => /\ Len(rdAsked') = Len(rdAsked) + 1
       /\ Len(allData') = Len(allData) + pageSize

\* C25: over a static store with N matching rows a call of
\* getAdPerformanceData ends; when it returns it has issued N \div pageSize + 1
\* page requests; its requests have the offsets 0, pageSize, 2 * pageSize, ...
\* in this order, each issued on receiving a full page of the one before; and
\* when a request fails the call throws and returns nothing.
C25_PagedReadTerminates ==
    /\ [](rdPc = "returned" => Len(rdAsked) = (MatchingCount \div pageSize) + 1)
    /\ [](\A i \in 1..Len(rdAsked) : rdAsked[i] = (i - 1) * pageSize)
    /\ [](rdPc = "threw" => rdResult = <<>>)
    /\ [][RequestStep]_vars
    /\ (rdPc = "page" ~> rdPc \in {"returned", "threw"})

\* A call over four matching rows returned after three page requests.
C25_Witness ==
    /\ rdPc = "returned"
    /\ MatchingCount = 4
    /\ rdAsked = <<0, pageSize, 2 * pageSize>>

\* C26: when only inserts of new keys commit during a call and the store
\* serves every page from one order of its rows with the latest day first,
\* every row that matched the filter when the call started is in what the call
\* returns.
C26_NoGapsUnderInserts ==
    rdPc = "returned" => atStart \subseteq Range(allData)

\* Two rows were inserted during a call that started over three matching rows;
\* the call returned all three, one of them twice.
C26_Witness ==
    /\ rdPc = "returned"
    /\ Cardinality(atStart) = 3
    /\ Len(table) = 5
    /\ Len(allData) > Cardinality(Range(allData))
    /\ atStart \subseteq Range(allData)

\* The totals of a list of summaries add up to those of the input rows.
TotalsConserved(out) ==
    /\ SumSeq([i \in 1..Len(out) |-> out[i].totalSpend])
         = SumSeq([k \in 1..Len(aggInput) |-> aggInput[k].amountSpent])
    /\ SumSeq([i \in 1..Len(out) |-> out[i].totalResults])
         = SumSeq([k \in 1..Len(aggInput) |-> aggInput[k].results])
    /\ SumSeq([i \in 1..Len(out) |-> out[i].totalImpressions])
         = SumSeq([k \in 1..Len(aggInput) |-> aggInput[k].impressions])
    /\ SumSeq([i \in 1..Len(out) |-> out[i].totalReach])
         = SumSeq([k \in 1..Len(aggInput) |-> aggInput[k].reach])

\* C27: the totalSpend, totalResults, totalImpressions and totalReach of the
\* summaries of aggregateByCampaign add up to the amountSpent, results,
\* impressions and reach of the input rows, and so do those of
\* aggregateByAdSet.
C27_TotalsConserved ==
    /\ campaigns # <<>> => TotalsConserved(campaigns[1])
    /\ adSets # <<>> => TotalsConserved(adSets[1])

\* Two rows with spend went into one campaign summary and two ad-set summaries.
C27_Witness ==
    /\ campaigns # <<>> /\ adSets # <<>>
    /\ Len(aggInput) = 2
    /\ aggInput[1].amountSpent > 0 /\ aggInput[2].amountSpent > 0
    /\ Len(campaigns[1]) = 1
    /\ Len(adSets[1]) = 2

---------------------------------------------------------------------------
(* Claims: the dashboard's navigation *)

\* What handleBackClick is said to do: nothing when nothing is selected, and
\* from an ad-set drill-down clear the ad set and keep the campaign.
BackStep ==
    HandleBackClick =>
        /\ (selectedCampaign = "null" /\ selectedAdSet = "null")
             => UNCHANGED <<selectedCampaign, selectedAdSet, activeTab>>
        /\ selectedAdSet # "null"
             => selectedAdSet' = "null" /\ selectedCampaign' = selectedCampaign

\* C30: on the overview and campaigns tabs neither a campaign nor an ad set is
\* selected, and on the ad sets tab no ad set is; handleBackClick changes
\* nothing when nothing is selected, and from an ad-set drill-down it clears
\* selectedAdSet only.
C30_NavigationInvariant ==
    /\ [](activeTab \in {"overview", "campaigns"}
            => selectedCampaign = "null" /\ selectedAdSet = "null")
    /\ [](activeTab = "adsets" => selectedAdSet = "null")
    /\ [][BackStep]_vars

---------------------------------------------------------------------------
(* Claims: the Home page *)

\* C28: isLoadingFromDB is true whenever a database load is in flight, and
\* false once every load has completed.
C28_LoadingFlagTracksLoads ==
    /\ InFlight => isLoadingFromDB
    /\ ~InFlight => ~isLoadingFromDB

\* adData and error are what load l alone leaves behind: its rows and no error,
\* or the message of its empty or failed read.
Reflects(l) ==
    IF l.threw THEN error = LoadFailedMessage
    ELSE IF Len(l.dbData) = 0 THEN error = NoDataMessage
    ELSE adData = <<l.dbData>> /\ error = "null"

\* Loads of different date ranges overlapped, the last of them with an
\* earlier one, and all have completed.
OverlappedLoadsDone ==
    /\ Len(loads) >= 2
    /\ loads[Len(loads)].overlaps
    /\ \A i, j \in 1..Len(loads) :
         i # j => LoadOptions(loads[i].dateFilters) # LoadOptions(loads[j].dateFilters)
    /\ ~InFlight
    /\ ~overridden

\* C29: once overlapping loads of different date ranges have all completed,
\* adData and error reflect the result of the load that started last.
C29_LatestRequestWins == OverlappedLoadsDone => Reflects(loads[Len(loads)])

=============================================================================
